---- MODULE Spec2Model ----
(***************************************************************************)
(* a11y-assist: profile transforms and the profile Guard.                  *)
(*                                                                         *)
(* Text is modelled as a sequence of lexemes.  A lexeme is either a whole  *)
(* word (a maximal piece of text the program's patterns never look         *)
(* inside: "right", "see", "ID", "--dry-run") or one punctuation           *)
(* character (" ", "(", "$", ".").  Two word lexemes that stand next to    *)
(* each other form one longer word, exactly as their characters would, so  *)
(* the word-boundary tests of the regular expressions are decided by the   *)
(* first and last character class of the neighbouring lexemes.             *)
(***************************************************************************)
EXTENDS Integers, Sequences, FiniteSets, TLC

VARIABLES pc, command, profile, input_kind, base_text, base, profiled, ctx, issues,
          violation, failure, stdout, stderr, json_file, exit_status, cli_error,
          rendered, earlier, ci

\* What a run leaves outside: the input failure it met, its two streams,
\* the --json-out file and its exit status (none while it runs).
io == <<failure, stdout, stderr, json_file, exit_status>>

vars == <<pc, command, profile, input_kind, base_text, base, profiled, ctx, issues,
          violation, io, cli_error, rendered, earlier, ci>>

-----------------------------------------------------------------------------
(* Lexeme classes *)

\* Lexemes made of non-word characters only (regex \W).
NonWordLex ==
    {" ", "(", ")", "[", "]", "$", ">", "<", ".", ";", ",", ":", "*", "'",
     "->", "=>", "&", "<ellipsis>", "-", "=", "/", "\n"}

\* Python's \s: the blank and the line break.
IsSpace(t) == t \in {" ", "\n"}

\* The lexeme begins (ends) with a word character (regex \w).
StartsWord(t) == t \notin NonWordLex /\ t # "--dry-run"
EndsWord(t) == t \notin NonWordLex

\* str.lower() on the lexemes whose case matters to a case-insensitive pattern.
Lower(t) ==
    CASE t \in {"Re-run", "RE-RUN"} -> "re-run"
      [] t = "Run" -> "run"
      [] t = "Try" -> "try"
      [] t = "Next" -> "next"
      [] t = "If" -> "if"
      [] t = "See" -> "see"
      [] t = "Please" -> "please"
      [] t = "Consider" -> "consider"
      [] t = "You" -> "you"
      [] t = "It" -> "it"
      [] t = "Original" -> "original"
      [] OTHER -> t

\* len() of one lexeme in characters.
CharLen(t) == IF t = "<ellipsis>" THEN 1 ELSE Len(t)

RECURSIVE StrLen(_)
\* len(s) in characters.
StrLen(s) == IF s = << >> THEN 0 ELSE CharLen(Head(s)) + StrLen(Tail(s))

-----------------------------------------------------------------------------
(* Generic string operations of Python, on lexeme sequences *)

RECURSIVE SkipSpaces(_, _)
\* The first index >= i that holds no blank (Len(s)+1 when there is none): \s*
SkipSpaces(s, i) ==
    IF i <= Len(s) /\ IsSpace(s[i]) THEN SkipSpaces(s, i + 1) ELSE i

RECURSIVE BackSpaces(_, _)
\* The least j <= i such that s[j..i-1] is all blanks.
BackSpaces(s, i) ==
    IF i > 1 /\ IsSpace(s[i - 1]) THEN BackSpaces(s, i - 1) ELSE i

\* str.lstrip(), str.rstrip(), str.strip()
LStrip(s) == SubSeq(s, SkipSpaces(s, 1), Len(s))
RStrip(s) == SubSeq(s, 1, BackSpaces(s, Len(s) + 1) - 1)
Strip(s) == RStrip(LStrip(s))

RECURSIVE CollapseSpaces(_)
\* re.sub(r"\s+", " ", s)
CollapseSpaces(s) ==
    IF s = << >> THEN << >>
    ELSE IF IsSpace(s[1])
         THEN <<" ">> \o CollapseSpaces(SubSeq(s, SkipSpaces(s, 1), Len(s)))
         ELSE <<s[1]>> \o CollapseSpaces(Tail(s))

\* s[i:] starts with p
MatchesAt(s, i, p) ==
    /\ i + Len(p) - 1 <= Len(s)
    /\ \A k \in 1..Len(p) : s[i + k - 1] = p[k]

\* str.startswith
StartsWith(s, p) == MatchesAt(s, 1, p)

RECURSIVE FindFrom(_, _, _)
\* The least index >= i where p occurs in s, or 0: str.find
FindFrom(s, i, p) ==
    IF i + Len(p) - 1 > Len(s) THEN 0
    ELSE IF MatchesAt(s, i, p) THEN i ELSE FindFrom(s, i + 1, p)

\* `p in s` for a non-empty p
Contains(s, p) == FindFrom(s, 1, p) # 0

\* `t in s` for one lexeme
HasLexeme(s, t) == \E i \in 1..Len(s) : s[i] = t

RECURSIVE ReplaceAll(_, _, _)
\* s.replace(p, r), left to right, non-overlapping
ReplaceAll(s, p, r) ==
    LET i == FindFrom(s, 1, p) IN
    IF i = 0 THEN s
    ELSE SubSeq(s, 1, i - 1) \o r \o ReplaceAll(SubSeq(s, i + Len(p), Len(s)), p, r)

\* s.split(sep)[0]
SplitHead(s, sep) ==
    LET i == FindFrom(s, 1, sep) IN
    IF i = 0 THEN s ELSE SubSeq(s, 1, i - 1)

\* s.endswith(t) for one lexeme
EndsWithLex(s, t) == s # << >> /\ s[Len(s)] = t

RECURSIVE TakeChars(_, _)
\* s[:n]: the longest prefix of whole lexemes that fits n characters.
TakeChars(s, n) ==
    IF s = << >> \/ CharLen(Head(s)) > n THEN << >>
    ELSE <<Head(s)>> \o TakeChars(Tail(s), n - CharLen(Head(s)))

-----------------------------------------------------------------------------
(* Patterns shared by the profiles and the Guard *)

\* Optional[str] None.  An Optional[int] is a sequence of no or one number.
None == "None"

Min(a, b) == IF a <= b THEN a ELSE b

\* seq[:n]
Take(seq, n) == SubSeq(seq, 1, Min(n, Len(seq)))

\* [f(x) for x in seq] is written [i \in 1..Len(seq) |-> f(seq[i])] where used.

Openers == {"(", "["}
Closers == {")", "]"}

RECURSIVE SkipNonClosers(_, _)
\* The first index >= i holding ")" or "]" (Len(s)+1 when there is none): [^\)\]]*
SkipNonClosers(s, i) ==
    IF i <= Len(s) /\ s[i] \notin Closers THEN SkipNonClosers(s, i + 1) ELSE i

\* A match of \s*[\(\[][^\)\]]*[\)\]]\s* beginning exactly at i: the index
\* after it, or 0 when the pattern does not match there.
ParenMatchEnd(s, i) ==
    LET j == SkipSpaces(s, i) IN
    IF j <= Len(s) /\ s[j] \in Openers
    THEN LET k == SkipNonClosers(s, j + 1) IN
         IF k <= Len(s) THEN SkipSpaces(s, k + 1) ELSE 0
    ELSE 0

RECURSIVE ParenSubFrom(_, _)
ParenSubFrom(s, i) ==
    IF i > Len(s) THEN << >>
    ELSE LET e == ParenMatchEnd(s, i) IN
         IF e # 0 THEN <<" ">> \o ParenSubFrom(s, e)
         ELSE <<s[i]>> \o ParenSubFrom(s, i + 1)

\* PARENTHETICAL_RE.sub(" ", s)
PARENTHETICAL_sub(s) == ParenSubFrom(s, 1)

VisualWords == {"above", "below", "left", "right", "arrow"}

\* \b before s[i] (s[i] begins with a word character).
BoundaryBefore(s, i) == i = 1 \/ ~EndsWord(s[i - 1])
\* \b after s[i] (s[i] ends with a word character).
BoundaryAfter(s, i) == i = Len(s) \/ ~StartsWord(s[i + 1])

\* A match of \b(see\s+)?(above|below|left|right|arrow)\b, ignoring case,
\* beginning exactly at i: the index after it, or 0.
VisualMatchEnd(s, i) ==
    IF ~(StartsWord(s[i]) /\ BoundaryBefore(s, i)) THEN 0
    ELSE LET j == SkipSpaces(s, i + 1)
             withSee ==
                 IF /\ Lower(s[i]) = "see"
                    /\ j > i + 1
                    /\ j <= Len(s)
                    /\ Lower(s[j]) \in VisualWords
                    /\ BoundaryAfter(s, j)
                 THEN j + 1 ELSE 0
         IN IF withSee # 0 THEN withSee
            ELSE IF Lower(s[i]) \in VisualWords /\ BoundaryAfter(s, i)
                 THEN i + 1 ELSE 0

RECURSIVE VisualSubFrom(_, _)
VisualSubFrom(s, i) ==
    IF i > Len(s) THEN << >>
    ELSE LET e == VisualMatchEnd(s, i) IN
         IF e # 0 THEN VisualSubFrom(s, e)
         ELSE <<s[i]>> \o VisualSubFrom(s, i + 1)

\* VISUAL_NAV_PHRASES.sub("", s)
VISUAL_NAV_sub(s) == VisualSubFrom(s, 1)

\* VISUAL_NAV_PATTERNS.search(s) is not None
VISUAL_NAV_search(s) == \E i \in 1..Len(s) : VisualMatchEnd(s, i) # 0

\* PARENTHETICAL_PATTERN.search(s) is not None:  [\(\)\[\]]
PARENTHETICAL_search(s) == \E i \in 1..Len(s) : s[i] \in Openers \cup Closers

\* One step of re.sub(r"\bABBR\b", expansion, s, count): the first match at or
\* after i is replaced; all == TRUE goes on to the later matches as well.
RECURSIVE AbbrevSubFrom(_, _, _, _, _)
AbbrevSubFrom(s, i, abbr, expansion, all) ==
    IF i > Len(s) THEN << >>
    ELSE IF s[i] = abbr /\ BoundaryBefore(s, i) /\ BoundaryAfter(s, i)
         THEN expansion \o (IF all THEN AbbrevSubFrom(s, i + 1, abbr, expansion, all)
                            ELSE SubSeq(s, i + 1, Len(s)))
         ELSE <<s[i]>> \o AbbrevSubFrom(s, i + 1, abbr, expansion, all)

\* The cap shared by cognitive_load._cap_length and screen_reader._cap_length:
\* s if len(s) <= max_len else s[:max_len - 1] + "…"
CapWithEllipsis(s, max_len) ==
    IF StrLen(s) <= max_len THEN s
    ELSE TakeChars(s, max_len - 1) \o <<"<ellipsis>">>

\* s + "." unless s is empty or already ends with "."
WithPeriod(s) == IF s # << >> /\ ~EndsWithLex(s, ".") THEN s \o <<".">> ELSE s

-----------------------------------------------------------------------------
(* render.AssistResult *)

AssistResult(id, conf, safest, plan, cmds, notes, methods, evidence) ==
    [anchored_id |-> id, confidence |-> conf, safest_next_step |-> safest,
     plan |-> plan, next_safe_commands |-> cmds, notes |-> notes,
     methods_applied |-> methods, evidence |-> evidence]

\* [x for x in seq if x]
NonEmptyOnly(seq) == SelectSeq(seq, LAMBDA x : x # << >>)

-----------------------------------------------------------------------------
(* profiles/cognitive_load.py *)

CL_MAX_STEP_LENGTH == 90
CL_MAX_NOTE_LENGTH == 100
CL_MAX_STEPS == 3
CL_MAX_NOTES == 2

\* "Follow the Fix steps."
CL_SAFEST_FALLBACK == <<"Follow", " ", "the", " ", "Fix", " ", "steps", ".">>
\* "Follow the tool's Fix steps in order."
CL_PLAN_FALLBACK ==
    <<"Follow", " ", "the", " ", "tool", "'", "s", " ", "Fix", " ", "steps",
      " ", "in", " ", "order", ".">>

\* BOILERPLATE_PREFIXES.sub("", s) for ^(re-?run:\s*|run:\s*|try:\s*|\$\s*|>\s*)
\* (words) and the same with next:\s* added (screen_reader).
BoilerplateSub(s, words) ==
    IF Len(s) >= 2 /\ Lower(s[1]) \in words /\ s[2] = ":"
    THEN SubSeq(s, SkipSpaces(s, 3), Len(s))
    ELSE IF Len(s) >= 1 /\ s[1] \in {"$", ">"}
         THEN SubSeq(s, SkipSpaces(s, 2), Len(s))
         ELSE s

CL_strip_boilerplate(s) == Strip(BoilerplateSub(s, {"re-run", "rerun", "run", "try"}))

CL_remove_parentheticals(s) ==
    LET result == Strip(PARENTHETICAL_sub(s)) IN
    IF result = << >> THEN s ELSE CollapseSpaces(result)

LowerSeq(s) == [i \in 1..Len(s) |-> Lower(s[i])]

\* pattern.sub(replacement, s) for ^<words joined by one blank>\s+, ignoring case
ImperativeSub(s, words, replacement) ==
    IF /\ MatchesAt(LowerSeq(s), 1, words)
       /\ Len(s) > Len(words)
       /\ IsSpace(s[Len(words) + 1])
    THEN replacement \o SubSeq(s, SkipSpaces(s, Len(words) + 1), Len(s))
    ELSE s

CL_to_imperative(s) ==
    LET s1 == ImperativeSub(s, <<"you", " ", "should">>, <<"Do", " ">>)
        s2 == ImperativeSub(s1, <<"please">>, <<"Do", " ">>)
        s3 == ImperativeSub(s2, <<"consider">>, <<"Try", " ">>)
    IN ImperativeSub(s3, <<"it", " ", "may", " ", "help", " ", "to">>, <<"Try", " ">>)

CL_reduce_conjunctions(s) ==
    LET s1 == ReplaceAll(s, <<" ", "and", " ", "then", " ">>, <<".", " ", "Then", " ">>)
        s2 == ReplaceAll(s1, <<" ", "and", " ">>, <<".", " ">>)
        s3 == ReplaceAll(s2, <<" ", "but", " ">>, <<".", " ">>)
        first == Strip(SplitHead(s3, <<".", " ">>))
    IN WithPeriod(first)

CL_cap_length(s, max_len) == CapWithEllipsis(s, max_len)

CL_normalize_step(step) ==
    LET s == Strip(step) IN
    IF s = << >> THEN s
    ELSE CL_cap_length(
             CL_reduce_conjunctions(
                 CL_to_imperative(
                     CL_remove_parentheticals(CL_strip_boilerplate(s)))),
             CL_MAX_STEP_LENGTH)

CL_normalize_safest_step(s) ==
    IF s = << >> THEN CL_SAFEST_FALLBACK
    ELSE LET s1 == CL_remove_parentheticals(s)
             s2 == IF HasLexeme(s1, ";") THEN Strip(SplitHead(s1, <<";">>))
                   ELSE IF HasLexeme(s1, ",") THEN Strip(SplitHead(s1, <<",">>))
                   ELSE s1
             s3 == Strip(CL_reduce_conjunctions(s2))
         IN CL_cap_length(WithPeriod(s3), CL_MAX_STEP_LENGTH)

CL_reduce_plan(plan) ==
    IF plan = << >> THEN <<CL_PLAN_FALLBACK>>
    ELSE LET kept == SelectSeq(plan, LAMBDA x : Strip(x) # << >>)
             normalized ==
                 NonEmptyOnly([i \in 1..Len(kept) |-> CL_normalize_step(kept[i])])
         IN IF normalized = << >> THEN <<CL_PLAN_FALLBACK>>
            ELSE Take(normalized, CL_MAX_STEPS)

\* The Optional[str] result is a sequence of zero or one command, which is
\* what apply_cognitive_load makes of it: [safe_cmd] if safe_cmd else [].
CL_select_safe_command(commands, confidence) ==
    IF confidence = "Low" THEN << >>
    ELSE IF commands = << >> THEN << >>
    ELSE NonEmptyOnly(<<commands[1]>>)

CL_reduce_notes(notes) ==
    LET firsts == Take(notes, CL_MAX_NOTES) IN
    NonEmptyOnly([i \in 1..Len(firsts) |->
                     CL_cap_length(CL_remove_parentheticals(firsts[i]),
                                   CL_MAX_NOTE_LENGTH)])

\* A transform that does not copy confidence and anchored_id verbatim.
apply_cognitive_load_upgrading(result) ==
    [result EXCEPT !.confidence = "High", !.anchored_id = "C.D"]

apply_cognitive_load(result) ==
    AssistResult(result.anchored_id,
                 result.confidence,
                 CL_normalize_safest_step(result.safest_next_step),
                 CL_reduce_plan(result.plan),
                 CL_select_safe_command(result.next_safe_commands, result.confidence),
                 CL_reduce_notes(result.notes),
                 << >>, << >>)

-----------------------------------------------------------------------------
(* profiles/screen_reader.py *)

SR_MAX_STEP_LENGTH == 110
SR_MAX_NOTE_LENGTH == 120
SR_MAX_STEPS_DEFAULT == 5
SR_MAX_STEPS_LOW == 3
SR_MAX_NOTES == 3

\* "Follow the steps in order."
SR_SAFEST_FALLBACK == <<"Follow", " ", "the", " ", "steps", " ", "in", " ", "order", ".">>
\* "Follow the tool's instructions."
SR_PLAN_FALLBACK ==
    <<"Follow", " ", "the", " ", "tool", "'", "s", " ", "instructions", ".">>

SR_strip_boilerplate(s) ==
    Strip(BoilerplateSub(s, {"re-run", "rerun", "run", "try", "next"}))

SR_remove_parentheticals(s) ==
    LET result == Strip(PARENTHETICAL_sub(s)) IN
    IF result = << >> THEN s ELSE CollapseSpaces(result)

SR_remove_visual_references(s) == Strip(CollapseSpaces(VISUAL_NAV_sub(s)))

\* pattern.sub(expansion, s) over ABBREVIATIONS, in the order of the list
SR_expand_abbreviations(s) ==
    LET a1 == AbbrevSubFrom(s, 1, "CLI", <<"command", " ", "line">>, TRUE)
        a2 == AbbrevSubFrom(a1, 1, "ID", <<"I", " ", "D">>, TRUE)
        a3 == AbbrevSubFrom(a2, 1, "URL", <<"U", " ", "R", " ", "L">>, TRUE)
        a4 == AbbrevSubFrom(a3, 1, "JSON", <<"J", " ", "S", " ", "O", " ", "N">>, TRUE)
        a5 == AbbrevSubFrom(a4, 1, "env", <<"environment">>, TRUE)
        a6 == AbbrevSubFrom(a5, 1, "SFTP", <<"S", " ", "F", " ", "T", " ", "P">>, TRUE)
        a7 == AbbrevSubFrom(a6, 1, "SSH", <<"S", " ", "S", " ", "H">>, TRUE)
    IN AbbrevSubFrom(a7, 1, "API", <<"A", " ", "P", " ", "I">>, TRUE)

SR_replace_symbols(s) ==
    LET s1 == ReplaceAll(s, <<"->">>, <<" ", "to", " ">>)
        s2 == ReplaceAll(s1, <<"=>">>, <<" ", "to", " ">>)
        s3 == ReplaceAll(s2, <<" ", "&", " ">>, <<" ", "and", " ">>)
    IN Strip(CollapseSpaces(s3))

SR_one_sentence(s) ==
    LET s1 == IF HasLexeme(s, ";") THEN Strip(SplitHead(s, <<";">>)) ELSE s
    IN Strip(SplitHead(s1, <<".", " ">>))

SR_ensure_period(s) == WithPeriod(Strip(s))

SR_cap_length(s, max_len) == CapWithEllipsis(s, max_len)

\* Steps 2..7 of normalize_step, which normalize_safest_step and reduce_notes
\* repeat in the same order.
SR_normalize_text(s) ==
    SR_ensure_period(
        SR_one_sentence(
            SR_replace_symbols(
                SR_expand_abbreviations(
                    SR_remove_visual_references(SR_remove_parentheticals(s))))))

SR_normalize_step(step) ==
    LET s == Strip(step) IN
    IF s = << >> THEN s
    ELSE SR_cap_length(SR_normalize_text(SR_strip_boilerplate(s)), SR_MAX_STEP_LENGTH)

SR_normalize_safest_step(s) ==
    IF s = << >> THEN SR_SAFEST_FALLBACK
    ELSE SR_cap_length(SR_normalize_text(s), SR_MAX_STEP_LENGTH)

SR_reduce_plan(plan, confidence) ==
    IF plan = << >> THEN <<SR_PLAN_FALLBACK>>
    ELSE LET max_steps == IF confidence = "Low" THEN SR_MAX_STEPS_LOW
                          ELSE SR_MAX_STEPS_DEFAULT
             kept == SelectSeq(plan, LAMBDA x : Strip(x) # << >>)
             normalized ==
                 NonEmptyOnly([i \in 1..Len(kept) |-> SR_normalize_step(kept[i])])
         IN IF normalized = << >> THEN <<SR_PLAN_FALLBACK>>
            ELSE Take(normalized, max_steps)

\* cmd[2:] after "$ ", cmd[1:] after "$": the one leading marker the
\* screen-reader profile removes.
StripDollarPrefix(cmd) ==
    IF StartsWith(cmd, <<"$", " ">>) THEN SubSeq(cmd, 3, Len(cmd))
    ELSE IF StartsWith(cmd, <<"$">>) THEN SubSeq(cmd, 2, Len(cmd))
    ELSE cmd

\* select_safe_command with the marker removal repeated, so that a command
\* is returned that is neither an input command nor one less one marker.
SR_select_safe_command_restripped(commands, confidence) ==
    IF confidence = "Low" THEN << >>
    ELSE IF commands = << >> THEN << >>
    ELSE NonEmptyOnly(<<StripDollarPrefix(StripDollarPrefix(commands[1]))>>)

SR_select_safe_command(commands, confidence) ==
    IF confidence = "Low" THEN << >>
    ELSE IF commands = << >> THEN << >>
    ELSE NonEmptyOnly(<<StripDollarPrefix(commands[1])>>)

SR_reduce_notes(notes) ==
    LET firsts == Take(notes, SR_MAX_NOTES)
        reduced == [i \in 1..Len(firsts) |->
                       SR_cap_length(SR_normalize_text(firsts[i]), SR_MAX_NOTE_LENGTH)]
    IN SelectSeq(reduced, LAMBDA n : n # << >> /\ n # <<".">>)

apply_screen_reader(result) ==
    AssistResult(result.anchored_id,
                 result.confidence,
                 SR_normalize_safest_step(result.safest_next_step),
                 SR_reduce_plan(result.plan, result.confidence),
                 SR_select_safe_command(result.next_safe_commands, result.confidence),
                 SR_reduce_notes(result.notes),
                 << >>, << >>)

-----------------------------------------------------------------------------
(* profiles/dyslexia.py *)

DY_MAX_STEPS == 5
DY_MAX_NOTES == 2
DY_MAX_COMMANDS == 3
DY_MAX_STEP_LENGTH == 110
DY_TRUNCATED_LENGTH == 107

\* re.sub(pattern, expansion, result, count=1) over ABBREVIATIONS, in dict order
DY_expand_abbreviations(text) ==
    LET a1 == AbbrevSubFrom(text, 1, "CLI", <<"command", " ", "line">>, FALSE)
        a2 == AbbrevSubFrom(a1, 1, "ID", <<"I", " ", "D">>, FALSE)
        a3 == AbbrevSubFrom(a2, 1, "JSON", <<"J", " ", "S", " ", "O", " ", "N">>, FALSE)
        a4 == AbbrevSubFrom(a3, 1, "API", <<"A", " ", "P", " ", "I">>, FALSE)
        a5 == AbbrevSubFrom(a4, 1, "SFTP", <<"S", " ", "F", " ", "T", " ", "P">>, FALSE)
        a6 == AbbrevSubFrom(a5, 1, "SSH", <<"S", " ", "S", " ", "H">>, FALSE)
        a7 == AbbrevSubFrom(a6, 1, "URL", <<"U", " ", "R", " ", "L">>, FALSE)
        a8 == AbbrevSubFrom(a7, 1, "HTTP", <<"H", " ", "T", " ", "T", " ", "P">>, FALSE)
    IN AbbrevSubFrom(a8, 1, "HTTPS", <<"H", " ", "T", " ", "T", " ", "P", " ", "S">>, FALSE)

DY_remove_parentheticals(text) == Strip(PARENTHETICAL_sub(text))

DY_remove_visual_refs(text) == Strip(VISUAL_NAV_sub(text))

\* SYMBOLIC_EMPHASIS: [*_→←↑↓] and the emoji range
SymbolicEmphasis == {"*", "_"}

DY_remove_symbolic_emphasis(text) ==
    Strip(SelectSeq(text, LAMBDA t : t \notin SymbolicEmphasis))

\* The four removals and the blank clean-up that _normalize_step and
\* _normalize_safest_step share.
DY_normalize_safest_step(text) ==
    Strip(CollapseSpaces(
        DY_expand_abbreviations(
            DY_remove_symbolic_emphasis(
                DY_remove_visual_refs(DY_remove_parentheticals(text))))))

DY_normalize_step(step) ==
    LET result == DY_normalize_safest_step(step) IN
    IF StrLen(result) > DY_MAX_STEP_LENGTH
    THEN TakeChars(result, DY_TRUNCATED_LENGTH) \o <<".", ".", ".">>
    ELSE result

DY_normalize_note(note) ==
    Strip(CollapseSpaces(
        DY_expand_abbreviations(
            DY_remove_symbolic_emphasis(DY_remove_parentheticals(note)))))

apply_dyslexia(result) ==
    LET steps == Take(result.plan, DY_MAX_STEPS)
        notes == Take(result.notes, DY_MAX_NOTES)
    IN AssistResult(result.anchored_id,
                    result.confidence,
                    DY_normalize_safest_step(result.safest_next_step),
                    NonEmptyOnly([i \in 1..Len(steps) |-> DY_normalize_step(steps[i])]),
                    Take(result.next_safe_commands, DY_MAX_COMMANDS),
                    NonEmptyOnly([i \in 1..Len(notes) |-> DY_normalize_note(notes[i])]),
                    << >>, << >>)

-----------------------------------------------------------------------------
(* profiles/plain_language.py *)

PL_MAX_STEPS == 4
PL_MAX_NOTES == 2
PL_MAX_COMMANDS == 1
PL_TRIVIAL_LENGTH == 2

PL_remove_parentheticals(text) == Strip(PARENTHETICAL_sub(text))

ConjunctionWords == {"and", "but", "or"}

SubordinateWords ==
    {"which", "that", "who", "whom", "whose", "when", "where", "while",
     "although", "because", "if", "unless", "until", "after", "before", "since"}

\* Where a match of \s*(?:,\s*)? that ends just before index i begins.
BackOverCommaAndSpaces(s, i) ==
    LET k == BackSpaces(s, i) IN
    IF k > 1 /\ s[k - 1] = "," THEN BackSpaces(s, k - 1) ELSE k

\* s[i] is the word of a CONJUNCTIONS match: ,\s*and\s+ or \s+and\s+ (but, or)
IsConjunctionAt(s, i) ==
    /\ s[i] \in ConjunctionWords
    /\ i < Len(s) /\ IsSpace(s[i + 1])
    /\ LET k == BackSpaces(s, i) IN k < i \/ (k > 1 /\ s[k - 1] = ",")

\* CONJUNCTIONS.split(s, maxsplit=1)[0]
CONJUNCTIONS_split_head(s) ==
    LET hits == {i \in 1..Len(s) : IsConjunctionAt(s, i)} IN
    IF hits = {} THEN s
    ELSE LET i == CHOOSE h \in hits : \A g \in hits : h <= g
         IN SubSeq(s, 1, BackOverCommaAndSpaces(s, i) - 1)

\* s[i] is the word of a SUBORDINATE match: (?:which|that|...)\s+, ignoring case
IsSubordinateAt(s, i) ==
    /\ Lower(s[i]) \in SubordinateWords
    /\ i < Len(s) /\ IsSpace(s[i + 1])

\* SUBORDINATE.sub("", s): the match runs to the end of the text
SUBORDINATE_sub(s) ==
    LET hits == {i \in 1..Len(s) : IsSubordinateAt(s, i)} IN
    IF hits = {} THEN s
    ELSE LET i == CHOOSE h \in hits : \A g \in hits : h <= g
         IN SubSeq(s, 1, BackOverCommaAndSpaces(s, i) - 1)

\* result[-1] in ".!?:"
EndsWithPunctuation(s) == s # << >> /\ s[Len(s)] \in {".", "!", "?", ":"}

PL_simplify_sentence(text) ==
    LET r1 == PL_remove_parentheticals(text)
        r2 == Strip(CONJUNCTIONS_split_head(r1))
        r3 == Strip(SUBORDINATE_sub(r2))
        r4 == Strip(CollapseSpaces(r3))
    IN IF r4 # << >> /\ ~EndsWithPunctuation(r4) THEN r4 \o <<".">> ELSE r4

PL_normalize_step(step) ==
    Strip(CollapseSpaces(PL_remove_parentheticals(PL_simplify_sentence(step))))

\* normalized and len(normalized) > 2
PL_NotTrivial(s) == s # << >> /\ StrLen(s) > PL_TRIVIAL_LENGTH

apply_plain_language(result) ==
    LET steps == Take(result.plan, PL_MAX_STEPS)
        notes == Take(result.notes, PL_MAX_NOTES)
    IN AssistResult(result.anchored_id,
                    result.confidence,
                    PL_simplify_sentence(result.safest_next_step),
                    SelectSeq([i \in 1..Len(steps) |-> PL_normalize_step(steps[i])],
                              PL_NotTrivial),
                    Take(result.next_safe_commands, PL_MAX_COMMANDS),
                    SelectSeq([i \in 1..Len(notes) |-> PL_simplify_sentence(notes[i])],
                              PL_NotTrivial),
                    << >>, << >>)

-----------------------------------------------------------------------------
(* methods.py *)

METHOD_NORMALIZE_CLI_ERROR == "engine.normalize.from_cli_error_v0_1"
METHOD_NORMALIZE_RAW_TEXT == "engine.normalize.from_raw_text"
METHOD_GUARD_VALIDATE == "guard.validate_profile_transform"

\* METHOD_PROFILE_* by profile name
METHOD_PROFILE(p) ==
    CASE p = "lowvision" -> "profile.lowvision.apply"
      [] p = "cognitive-load" -> "profile.cognitive_load.apply"
      [] p = "screen-reader" -> "profile.screen_reader.apply"
      [] p = "dyslexia" -> "profile.dyslexia.apply"
      [] p = "plain-language" -> "profile.plain_language.apply"

InSeq(x, seq) == \E i \in 1..Len(seq) : seq[i] = x

\* The id is appended even when the trail holds it.
with_method_appending(result, method) ==
    [result EXCEPT !.methods_applied = Append(@, method)]

\* with_method / with_methods for one method id: appended unless present
with_method(result, method) ==
    [result EXCEPT !.methods_applied =
        IF InSeq(method, @) THEN @ ELSE Append(@, method)]

-----------------------------------------------------------------------------
(* cli.py: the profile registry *)

PROFILE_CHOICES ==
    {"lowvision", "cognitive-load", "screen-reader", "dyslexia", "plain-language"}

apply_profile(result, p) ==
    CASE p = "cognitive-load" -> with_method(apply_cognitive_load(result), METHOD_PROFILE(p))
      [] p = "screen-reader" -> with_method(apply_screen_reader(result), METHOD_PROFILE(p))
      [] p = "dyslexia" -> with_method(apply_dyslexia(result), METHOD_PROFILE(p))
      [] p = "plain-language" -> with_method(apply_plain_language(result), METHOD_PROFILE(p))
      [] OTHER -> with_method(result, METHOD_PROFILE("lowvision"))

-----------------------------------------------------------------------------
(* guard.py *)

Confidences == {"Low", "Medium", "High"}

\* CONFIDENCE_ORDER.get(c, 0)
CONFIDENCE_ORDER(c) ==
    CASE c = "Low" -> 0
      [] c = "Medium" -> 1
      [] c = "High" -> 2
      [] OTHER -> 0

GuardContext(p, confidence, kind, allowed, forbidPar, forbidVis, maxSteps, allowLow) ==
    [profile |-> p, confidence |-> confidence, input_kind |-> kind,
     allowed_safe_commands |-> allowed,
     forbid_parentheticals |-> forbidPar, forbid_visual_refs |-> forbidVis,
     max_steps |-> maxSteps, allow_commands_on_low |-> allowLow]

get_guard_context(p, confidence, kind, allowed_commands) ==
    CASE p = "lowvision" ->
           GuardContext(p, confidence, kind, allowed_commands, FALSE, FALSE, <<5>>, FALSE)
      [] p = "cognitive-load" ->
           GuardContext(p, confidence, kind, allowed_commands, FALSE, FALSE, <<3>>, FALSE)
      [] p = "screen-reader" ->
           GuardContext(p, confidence, kind, allowed_commands, TRUE, TRUE,
                        IF confidence = "Low" THEN <<3>> ELSE <<5>>, FALSE)
      [] p = "dyslexia" ->
           GuardContext(p, confidence, kind, allowed_commands, TRUE, TRUE, <<5>>, FALSE)
      [] p = "plain-language" ->
           GuardContext(p, confidence, kind, allowed_commands, TRUE, FALSE, <<4>>, FALSE)
      [] OTHER ->
           GuardContext(p, confidence, kind, allowed_commands, FALSE, FALSE, << >>, FALSE)

\* The orders in which a set of strings may yield its elements: the order
\* of a frozenset follows the hashes of the process.
IterationOrders(S) ==
    {order \in [1..Cardinality(S) -> S] : {order[i] : i \in DOMAIN order} = S}

\* The context together with the order its allowed_safe_commands has in
\* this process
Iterated(c, order) == c @@ [iteration |-> order]

GuardIssue(severity, code, where) ==
    [severity |-> severity, code |-> code, where |-> where]

\* The id check with a dropped id let through.
_check_id_invariant_ignoring_drop(b, p) ==
    IF p.anchored_id = None THEN << >>
    ELSE IF b.anchored_id = None
    THEN <<GuardIssue("ERROR", "ID.INVENTED", <<"anchored_id">>)>>
    ELSE IF p.anchored_id # b.anchored_id
    THEN <<GuardIssue("ERROR", "ID.CHANGED", <<"anchored_id">>)>>
    ELSE << >>

_check_id_invariant(b, p) ==
    IF b.anchored_id = None
    THEN IF p.anchored_id # None
         THEN <<GuardIssue("ERROR", "ID.INVENTED", <<"anchored_id">>)>>
         ELSE << >>
    ELSE IF p.anchored_id # b.anchored_id
         THEN <<GuardIssue("ERROR", "ID.CHANGED", <<"anchored_id">>)>>
         ELSE << >>

\* The confidence check with the comparison turned into "differs".
_check_confidence_invariant_any_change(b, p) ==
    IF CONFIDENCE_ORDER(p.confidence) # CONFIDENCE_ORDER(b.confidence)
    THEN <<GuardIssue("ERROR", "CONFIDENCE.INCREASED", <<"confidence">>)>>
    ELSE << >>

_check_confidence_invariant(b, p) ==
    IF CONFIDENCE_ORDER(p.confidence) > CONFIDENCE_ORDER(b.confidence)
    THEN <<GuardIssue("ERROR", "CONFIDENCE.INCREASED", <<"confidence">>)>>
    ELSE << >>

RECURSIVE LStripDollarBlank(_)
\* cmd.lstrip("$ "): every leading "$" and blank goes
LStripDollarBlank(cmd) ==
    IF cmd # << >> /\ Head(cmd) \in {"$", " "} THEN LStripDollarBlank(Tail(cmd))
    ELSE cmd

\* cmd.lstrip("$ ").strip()
NormalizeCommand(cmd) == Strip(LStripDollarBlank(cmd))

\* Only the element the set yields first is compared.
CommandAllowedByFirst(cmd, c) ==
    /\ c.iteration # << >>
    /\ NormalizeCommand(cmd) = NormalizeCommand(c.iteration[1])

CommandAllowed(cmd, c) ==
    \E allowed_cmd \in c.allowed_safe_commands :
        NormalizeCommand(cmd) = NormalizeCommand(allowed_cmd)

RECURSIVE InventedIssues(_, _)
InventedIssues(cmds, c) ==
    IF cmds = << >> THEN << >>
    ELSE (IF CommandAllowed(Head(cmds), c) THEN << >>
          ELSE <<GuardIssue("ERROR", "COMMANDS.INVENTED", Head(cmds))>>)
         \o InventedIssues(Tail(cmds), c)

\* The commands check with the Low-confidence test made an else branch of
\* the invention test.
_check_commands_invariant_exclusive(b, p, c) ==
    IF InventedIssues(p.next_safe_commands, c) # << >>
    THEN InventedIssues(p.next_safe_commands, c)
    ELSE IF /\ c.confidence = "Low"
            /\ ~c.allow_commands_on_low
            /\ p.next_safe_commands # << >>
    THEN <<GuardIssue("ERROR", "COMMANDS.DISALLOWED_LOW_CONF", <<"next_safe_commands">>)>>
    ELSE << >>

_check_commands_invariant(b, p, c) ==
    InventedIssues(p.next_safe_commands, c)
    \o (IF /\ c.confidence = "Low"
           /\ ~c.allow_commands_on_low
           /\ p.next_safe_commands # << >>
        THEN <<GuardIssue("ERROR", "COMMANDS.DISALLOWED_LOW_CONF", <<"next_safe_commands">>)>>
        ELSE << >>)

\* The step-count check with "more than" turned into "at least".
_check_step_count_invariant_inclusive(p, c) ==
    IF c.max_steps # << >> /\ Len(p.plan) >= c.max_steps[1]
    THEN <<GuardIssue("ERROR", "PLAN.TOO_MANY_STEPS", <<"plan">>)>>
    ELSE << >>

_check_step_count_invariant(p, c) ==
    IF c.max_steps # << >> /\ Len(p.plan) > c.max_steps[1]
    THEN <<GuardIssue("ERROR", "PLAN.TOO_MANY_STEPS", <<"plan">>)>>
    ELSE << >>

\* fields_to_check: safest_next_step, plan[i], notes[i], in that order
FieldsToCheck(p) ==
    <<[name |-> <<"safest_next_step">>, text |-> p.safest_next_step]>>
    \o [i \in 1..Len(p.plan) |-> [name |-> <<"plan", i - 1>>, text |-> p.plan[i]]]
    \o [i \in 1..Len(p.notes) |-> [name |-> <<"notes", i - 1>>, text |-> p.notes[i]]]

\* The forbidden pattern each text constraint searches for
ForbiddenIn(code, text) ==
    IF code = "TEXT.PARENTHETICALS_FORBIDDEN" THEN PARENTHETICAL_search(text)
    ELSE VISUAL_NAV_search(text)

RECURSIVE FieldIssues(_, _)
FieldIssues(fields, code) ==
    IF fields = << >> THEN << >>
    ELSE (IF ForbiddenIn(code, Head(fields).text)
          THEN <<GuardIssue("ERROR", code, Head(fields).name)>> ELSE << >>)
         \o FieldIssues(Tail(fields), code)

\* The parenthetical check stopping at the first offending field.
_check_parentheticals_constraint_first_only(p) ==
    Take(FieldIssues(FieldsToCheck(p), "TEXT.PARENTHETICALS_FORBIDDEN"), 1)

_check_parentheticals_constraint(p) ==
    FieldIssues(FieldsToCheck(p), "TEXT.PARENTHETICALS_FORBIDDEN")

_check_visual_refs_constraint(p) ==
    FieldIssues(FieldsToCheck(p), "TEXT.VISUAL_REFS_FORBIDDEN")

\* Issues of severity ERROR
Errors(iss) == SelectSeq(iss, LAMBDA i : i.severity = "ERROR")

\* A violation that carries the first ERROR issue only.
GuardViolationOfFirst(iss) == Take(Errors(iss), 1)

\* The issues of the GuardViolation validate_profile_transform raises once
\* every check has run; no issues when it returns normally.
GuardViolation(iss) == Errors(iss)

STOPWORDS ==
    {"a", "an", "the", "is", "are", "was", "were", "be", "been", "being",
     "have", "has", "had", "do", "does", "did", "will", "would", "could",
     "should", "may", "might", "must", "shall", "can", "to", "of", "in",
     "for", "on", "with", "at", "by", "from", "as", "into", "through",
     "during", "before", "after", "above", "below", "between", "under",
     "again", "further", "then", "once", "here", "there", "when", "where",
     "why", "how", "all", "each", "few", "more", "most", "other", "some",
     "such", "no", "nor", "not", "only", "own", "same", "so", "than",
     "too", "very", "just", "also", "now", "and", "but", "or", "if", "it",
     "its", "this", "that", "these", "those", "what", "which", "who",
     "whom", "your", "you", "we", "they", "them", "their", "our", "my"}

GLUE_VOCABULARY ==
    {"step", "first", "next", "last", "run", "rerun", "re-run", "confirm",
     "check", "verify", "try", "retry", "follow", "start", "continue",
     "do", "ensure", "make", "see", "look", "update", "fix", "apply",
     "tool", "tools", "command", "commands", "output", "input", "file",
     "files", "error", "errors", "warning", "warnings", "dry", "dryrun",
     "dry-run", "validate", "validation", "config", "configuration",
     "line", "cli", "json", "order", "instructions", "steps"}

\* text.lower() on a word lexeme made of letters and digits only
LowerWord(t) ==
    CASE t = "A" -> "a" [] t = "D" -> "d" [] t = "F" -> "f" [] t = "H" -> "h"
      [] t = "I" -> "i" [] t = "J" -> "j" [] t = "L" -> "l" [] t = "N" -> "n"
      [] t = "O" -> "o" [] t = "P" -> "p" [] t = "R" -> "r" [] t = "S" -> "s"
      [] t = "T" -> "t" [] t = "U" -> "u"
      [] t = "API" -> "api" [] t = "CLI" -> "cli" [] t = "HTTP" -> "http"
      [] t = "HTTPS" -> "https" [] t = "JSON" -> "json" [] t = "SFTP" -> "sftp"
      [] t = "SSH" -> "ssh" [] t = "URL" -> "url" [] t = "ID" -> "id"
      [] t = "ERROR" -> "error" [] t = "Do" -> "do" [] t = "Emit" -> "emit"
      [] t = "Fix" -> "fix" [] t = "Follow" -> "follow" [] t = "No" -> "no"
      [] t = "Then" -> "then" [] t = "Update" -> "update" [] t = "What" -> "what"
      [] t = "Why" -> "why" [] t = "Adopt" -> "adopt" [] t = "Start" -> "start"
      [] t = "Prefer" -> "prefer" [] t = "Validation" -> "validation"
      [] t = "This" -> "this" [] t = "Title" -> "title"
      [] t = "Validate" -> "validate" [] t = "Include" -> "include"
      [] t = "Ensure" -> "ensure" [] t = "WARN" -> "warn" [] t = "Issue" -> "issue"
      [] t = "PAY001" -> "pay001"
      [] OTHER -> Lower(t)

\* re.findall(r"[a-zA-Z0-9]+", lexeme.lower()): the runs of letters and
\* digits inside one lexeme
AlnumPieces(t) ==
    CASE t \in NonWordLex \cup {"!", "?", "_", "\"", "{", "}"} -> << >>
      [] t = "--dry-run" -> <<"dry", "run">>
      [] t = "dry-run" -> <<"dry", "run">>
      [] t = "--validate" -> <<"validate">>
      [] t = "A.B" -> <<"a", "b">>
      [] t = "C.D" -> <<"c", "d">>
      [] t = "NAMESPACE.CATEGORY.DETAIL" -> <<"namespace", "category", "detail">>
      [] t \in {"Re-run", "re-run", "RE-RUN"} -> <<"re", "run">>
      [] t = "cli.error.v0.1" -> <<"cli", "error", "v0", "1">>
      [] t = "high-confidence" -> <<"high", "confidence">>
      [] t = "assist-run" -> <<"assist", "run">>
      [] t = "a11y-assist" -> <<"a11y", "assist">>
      [] t = "non-destructive" -> <<"non", "destructive">>
      [] t = "last.log" -> <<"last", "log">>
      [] OTHER -> <<LowerWord(t)>>

\* The lexeme begins with a letter or a digit
StartsAlnum(t) == AlnumPieces(t) # << >> /\ t \notin {"--dry-run", "--validate"}

\* The runs of letters and digits of a text; a run goes on through lexemes
\* that touch.
RECURSIVE ContentPieces(_)
ContentPieces(text) ==
    IF text = << >> THEN << >>
    ELSE LET h == AlnumPieces(Head(text))
             rest == ContentPieces(Tail(text))
         IN  IF h # << >> /\ Len(text) > 1 /\ StartsAlnum(text[2])
             THEN SubSeq(h, 1, Len(h) - 1) \o <<h[Len(h)] \o Head(rest)>> \o Tail(rest)
             ELSE h \o rest

\* The pieces of three characters or more that are no stopwords
ContentWords(pieces) ==
    {pieces[k] : k \in {j \in 1..Len(pieces) :
                            Len(pieces[j]) >= 3 /\ pieces[j] \notin STOPWORDS}}

_tokenize_content(text) == ContentWords(ContentPieces(text))

_is_content_supported(line, base_tokens) ==
    LET line_tokens == _tokenize_content(line)
        non_glue == line_tokens \ GLUE_VOCABULARY
    IN  \/ line_tokens = {}
        \/ line_tokens \cap base_tokens # {}
        \/ non_glue = {}
        \/ non_glue \ base_tokens = {}

UNSUPPORTED(where) == GuardIssue("WARN", "CONTENT.UNSUPPORTED", where)

\* The WARN issues of the plan steps from step i on
RECURSIVE UnsupportedSteps(_, _, _)
UnsupportedSteps(plan, i, base_tokens) ==
    IF i > Len(plan) THEN << >>
    ELSE (IF _is_content_supported(plan[i], base_tokens) THEN << >>
          ELSE <<UNSUPPORTED(<<"plan", i - 1>>)>>)
         \o UnsupportedSteps(plan, i + 1, base_tokens)

\* WARN issues for the safest_next_step and the plan steps that hold content
\* the base text does not; notes are not looked at.
_check_content_support_invariant(text, p) ==
    LET base_tokens == _tokenize_content(text)
    IN  (IF _is_content_supported(p.safest_next_step, base_tokens) THEN << >>
         ELSE <<UNSUPPORTED(<<"safest_next_step">>)>>)
        \o UnsupportedSteps(p.plan, 1, base_tokens)

\* The issues validate_profile_transform collects, in the order of its checks.
validate_profile_transform(text, b, p, c) ==
    _check_id_invariant(b, p) \o _check_confidence_invariant(b, p)
    \o _check_commands_invariant(b, p, c) \o _check_step_count_invariant(p, c)
    \o _check_content_support_invariant(text, p)
    \o (IF c.forbid_parentheticals THEN _check_parentheticals_constraint(p) ELSE << >>)
    \o (IF c.forbid_visual_refs THEN _check_visual_refs_constraint(p) ELSE << >>)

Range(seq) == {seq[i] : i \in 1..Len(seq)}

-----------------------------------------------------------------------------
(* cli.py: the literal texts of triage_cmd *)

\* "Follow the tool's Fix steps, starting with the least risky check."
TRIAGE_SAFEST ==
    <<"Follow", " ", "the", " ", "tool", "'", "s", " ", "Fix", " ",
      "steps", ",", " ", "starting", " ", "with", " ", "the", " ", "least",
      " ", "risky", " ", "check", ".">>

\* "No (ID: ...) found. Emit cli.error.v0.1 for high-confidence assist."
TRIAGE_NOTE_NO_ID ==
    <<"No", " ", "(", "ID", ":", " ", ".", ".", ".", ")", " ", "found",
      ".", " ", "Emit", " ", "cli.error.v0.1", " ", "for", " ",
      "high-confidence", " ", "assist", ".">>

\* "Re-run the command with increased verbosity/logging."
TRIAGE_PLAN_1 ==
    <<"Re-run", " ", "the", " ", "command", " ", "with", " ", "increased",
      " ", "verbosity", "/", "logging", ".">>

\* "Update the tool to emit (ID: ...) and What/Why/Fix blocks."
TRIAGE_PLAN_2 ==
    <<"Update", " ", "the", " ", "tool", " ", "to", " ", "emit", " ", "(",
      "ID", ":", " ", ".", ".", ".", ")", " ", "and", " ", "What", "/",
      "Why", "/", "Fix", " ", "blocks", ".">>

\* "If this is your tool, adopt cli.error.v0.1 JSON output."
TRIAGE_PLAN_3 ==
    <<"If", " ", "this", " ", "is", " ", "your", " ", "tool", ",", " ",
      "adopt", " ", "cli.error.v0.1", " ", "JSON", " ", "output", ".">>

TRIAGE_PLAN_FALLBACK == <<TRIAGE_PLAN_1, TRIAGE_PLAN_2, TRIAGE_PLAN_3>>

-----------------------------------------------------------------------------
(* parse_raw.py *)

\* Lexemes of the form [A-Z][A-Z0-9]*(?:\.[A-Z0-9]+)+ that the model uses.
IdLexemes == {"A.B", "C.D", "NAMESPACE.CATEGORY.DETAIL"}

\* ID_IN_PARENS_RE matches at i:  \(ID:\s*(<id>)\)
IdMatchAt(text, i) ==
    /\ MatchesAt(text, i, <<"(", "ID", ":">>)
    /\ LET j == SkipSpaces(text, i + 3) IN
       /\ j + 1 <= Len(text)
       /\ text[j] \in IdLexemes
       /\ text[j + 1] = ")"

\* The capture of the last match instead of the first.
extract_id_of_last(text) ==
    LET hits == {i \in 1..Len(text) : IdMatchAt(text, i)} IN
    IF hits = {} THEN None
    ELSE LET i == CHOOSE h \in hits : \A g \in hits : h >= g
         IN text[SkipSpaces(text, i + 3)]

extract_id(text) ==
    LET hits == {i \in 1..Len(text) : IdMatchAt(text, i)} IN
    IF hits = {} THEN None
    ELSE LET i == CHOOSE h \in hits : \A g \in hits : h <= g
         IN text[SkipSpaces(text, i + 3)]

RECURSIVE splitlines(_)
\* str.splitlines()
splitlines(text) ==
    LET i == FindFrom(text, 1, <<"\n">>) IN
    IF text = << >> THEN << >>
    ELSE IF i = 0 THEN <<text>>
    ELSE <<SubSeq(text, 1, i - 1)>> \o splitlines(SubSeq(text, i + 1, Len(text)))

BlockHeaders == {<<"What", ":">>, <<"Why", ":">>, <<"Fix", ":">>}

EmptyBlocks == [h \in BlockHeaders |-> << >>]

RECURSIVE ExtractBlocksFrom(_, _, _)
\* The loop of extract_blocks: current is the open block's header or None.
ExtractBlocksFrom(lines, current, blocks) ==
    IF lines = << >> THEN blocks
    ELSE LET s == Head(lines)
             stripped == Strip(s)
         IN IF stripped \in BlockHeaders
            THEN ExtractBlocksFrom(Tail(lines), stripped, blocks)
            ELSE IF current # None /\ StartsWith(s, <<" ", " ">>)
            THEN ExtractBlocksFrom(Tail(lines), current,
                                   [blocks EXCEPT ![current] = Append(@, stripped)])
            ELSE IF current # None /\ stripped = << >>
            THEN ExtractBlocksFrom(Tail(lines), current, blocks)
            ELSE ExtractBlocksFrom(Tail(lines), None, blocks)

extract_blocks(lines) == ExtractBlocksFrom(lines, None, EmptyBlocks)

-----------------------------------------------------------------------------
(* cli.py: triage_cmd up to the AssistResult it builds *)

\* Evidence(field, source); an indexed name is a pair of name and index
Evidence(field, source) == [field |-> field, source |-> source]

\* Least j with plan[j] = cmd (the inner loop with its break)
FirstIndexOf(plan, cmd) ==
    CHOOSE j \in 1..Len(plan) :
        plan[j] = cmd /\ \A k \in 1..(j - 1) : plan[k] # cmd

triage_result(text) ==
    LET err_id == extract_id(text)
        fix_lines == extract_blocks(splitlines(text))[<<"Fix", ":">>]
        confidence == IF err_id # None THEN "Medium" ELSE "Low"
        notes == IF err_id # None THEN << >> ELSE <<TRIAGE_NOTE_NO_ID>>
        plan == IF fix_lines # << >> THEN fix_lines ELSE TRIAGE_PLAN_FALLBACK
        safe_cmds == Take(SelectSeq(plan, LAMBDA line : HasLexeme(line, "--dry-run")), 3)
        evidence ==
            (IF fix_lines # << >>
             THEN <<Evidence(<<"safest_next_step">>, <<"raw_text:Fix", 1>>)>>
                  \o [i \in 1..Len(plan) |->
                        Evidence(<<"plan", i - 1>>, <<"raw_text:Fix", i>>)]
             ELSE << >>)
            \o [i \in 1..Len(safe_cmds) |->
                  Evidence(<<"next_safe_commands", i - 1>>,
                           <<"raw_text:Fix", FirstIndexOf(plan, safe_cmds[i])>>)]
    IN AssistResult(err_id, confidence, TRIAGE_SAFEST, plan, safe_cmds, notes,
                    <<METHOD_NORMALIZE_RAW_TEXT>>, evidence)

-----------------------------------------------------------------------------
(* from_cli_error.py *)

\* A cli.error.v0.1 object as load_cli_error returns it.  id and title are
\* no or one value; what, why and fix are absent, one string or a list of
\* strings: kind says which, v holds the strings.
CliError(id, code, title, what, why, fix) ==
    [id |-> id, code |-> code, title |-> title, what |-> what, why |-> why, fix |-> fix]

Absent == [kind |-> "absent", v |-> << >>]
Str(text) == [kind |-> "str", v |-> <<text>>]
List(texts) == [kind |-> "list", v |-> texts]

\* A normalisation that keeps the first item only.
_normalize_to_list_first(value) ==
    IF value.kind = "absent" \/ value.v = << >> THEN << >> ELSE <<value.v[1]>>

_normalize_to_list(value) ==
    CASE value.kind = "absent" -> << >>
      [] value.kind = "str" -> IF Strip(value.v[1]) # << >> THEN value.v ELSE << >>
      [] OTHER -> SelectSeq(value.v, LAMBDA x : x # << >>)

\* obj.get("title") or obj.get("what", "Issue"), and the first item of a list
TitleOf(obj) ==
    IF obj.title # << >> /\ obj.title[1] # << >> THEN obj.title[1]
    ELSE CASE obj.what.kind = "absent" -> <<"Issue">>
           [] obj.what.kind = "str" -> obj.what.v[1]
           [] OTHER -> IF obj.what.v = << >> THEN <<"Issue">> ELSE obj.what.v[1]

\* line.replace("$", "").replace(">", "")
RECURSIVE DropPromptChars(_)
DropPromptChars(line) ==
    IF line = << >> THEN << >>
    ELSE (CASE Head(line) \in {"$", ">"} -> << >>
            [] Head(line) = "->" -> <<"-">>
            [] Head(line) = "=>" -> <<"=">>
            [] OTHER -> <<Head(line)>>)
         \o DropPromptChars(Tail(line))

\* line.strip().startswith(("$ ", "> ", "run "))
HasCommandPrefix(line) ==
    \E w \in {"$", ">", "run"} : StartsWith(Strip(line), <<w, " ">>)

\* line.lower().startswith("re-run:")
HasRerunPrefix(line) ==
    Len(line) >= 2 /\ line[1] \in {"re-run", "Re-run", "RE-RUN"} /\ line[2] = ":"

\* line.split(":", 1)[1].strip()
AfterFirstColon(line) ==
    Strip(SubSeq(line, FindFrom(line, 1, <<":">>) + 1, Len(line)))

\* The commands one fix line gives, before the filter
CommandsOfLine(line) ==
    (IF HasLexeme(line, "--dry-run") \/ HasCommandPrefix(line)
     THEN <<Strip(DropPromptChars(line))>> ELSE << >>)
    \o (IF HasRerunPrefix(line) THEN <<AfterFirstColon(line)>> ELSE << >>)

RECURSIVE NextCmds(_)
NextCmds(fix) ==
    IF fix = << >> THEN << >> ELSE CommandsOfLine(Head(fix)) \o NextCmds(Tail(fix))

\* "--dry-run" in c or "validate" in c or "check" in c, by the lexemes that
\* hold the words
IsSafe(c) ==
    \E k \in 1..Len(c) : c[k] \in {"--dry-run", "validate", "--validate", "check", "checkout"}

\* No deduplication at all.
KeepDuplicates(seq) == seq

\* list(dict.fromkeys(seq))
RECURSIVE Dedupe(_)
Dedupe(seq) ==
    IF seq = << >> THEN << >>
    ELSE LET front == Dedupe(SubSeq(seq, 1, Len(seq) - 1))
             last == seq[Len(seq)]
         IN IF InSeq(last, front) THEN front ELSE Append(front, last)

\* The fix line the evidence of a command names: the first that holds the
\* command or is its Re-run: line; no line gives no evidence.
CommandSourceLines(fix, cmd) ==
    {j \in 1..Len(fix) :
        \/ Contains(fix[j], cmd)
        \/ HasRerunPrefix(fix[j]) /\ cmd = AfterFirstColon(fix[j])}

RECURSIVE CommandEvidence(_, _, _)
CommandEvidence(fix, cmds, i) ==
    IF i > Len(cmds) THEN << >>
    ELSE (IF CommandSourceLines(fix, cmds[i]) = {} THEN << >>
          ELSE <<Evidence(<<"next_safe_commands", i - 1>>,
                          <<"cli.error.fix",
                            (CHOOSE j \in CommandSourceLines(fix, cmds[i]) :
                                \A k \in CommandSourceLines(fix, cmds[i]) : j <= k) - 1>>)>>)
         \o CommandEvidence(fix, cmds, i + 1)

assist_from_cli_error(obj) ==
    LET err_id == IF obj.id # << >> /\ obj.id[1] # "" THEN obj.id[1] ELSE obj.code
        why == _normalize_to_list(obj.why)
        fix == _normalize_to_list(obj.fix)
        lines == [i \in 1..Len(fix) |-> Strip(fix[i])]
        steps == SelectSeq(lines, LAMBDA line : line # << >>)
        plan == IF steps # << >> THEN steps
                ELSE <<<<"Follow", " ", "the", " ", "Fix", " ", "steps", " ", "provided",
                         " ", "by", " ", "the", " ", "tool", " ", "output", ".">>>>
        safest_next ==
            IF why # << >> /\ Strip(why[1]) # << >>
            THEN <<"Start", " ", "by", " ", "confirming", " ", "the", " ", "cause", " ",
                   "described", " ", "under", " ", "'", "Why", "'", ",", " ", "then",
                   " ", "apply", " ", "the", " ", "first", " ", "Fix", " ", "step", ".">>
            ELSE <<"Follow", " ", "the", " ", "Fix", " ", "steps", " ", "in", " ",
                   "order", ",", " ", "starting", " ", "with", " ", "the", " ", "least",
                   " ", "risky", " ", "check", ".">>
        safe_filtered == Dedupe(SelectSeq(NextCmds(fix), IsSafe))
        notes ==
            <<<<"Original", " ", "title", ":", " ">> \o TitleOf(obj),
              <<"This", " ", "assist", " ", "block", " ", "is", " ", "additive", ";",
                " ", "it", " ", "does", " ", "not", " ", "replace", " ", "the", " ",
                "tool", "'", "s", " ", "output", ".">>>>
        evidence ==
            <<Evidence(<<"safest_next_step">>,
                       IF why # << >> THEN <<"cli.error.why", 0>> ELSE <<"cli.error.fix", 0>>)>>
            \o [i \in 1..Len(plan) |-> Evidence(<<"plan", i - 1>>, <<"cli.error.fix", i - 1>>)]
            \o CommandEvidence(fix, Take(safe_filtered, 3), 1)
    IN AssistResult(err_id, "High", safest_next, plan, Take(safe_filtered, 3), notes,
                    <<METHOD_NORMALIZE_CLI_ERROR>>, evidence)

\* sep.join(parts)
RECURSIVE Join(_, _)
Join(parts, sep) ==
    IF parts = << >> THEN << >>
    ELSE IF Len(parts) = 1 THEN parts[1]
    ELSE parts[1] \o sep \o Join(Tail(parts), sep)

\* The result explain_cmd builds when load_cli_error raised
\* CliErrorValidationError with these messages
invalid_result(errors) ==
    AssistResult(None, "Low",
        <<"Emit", " ", "a", " ", "valid", " ", "cli.error.v0.1", " ", "JSON", " ",
          "message", " ", "and", " ", "retry", ".">>,
        << <<"Validate", " ", "your", " ", "JSON", " ", "output", " ", "against", " ",
             "cli.error.v0.1", ".">>,
           <<"Include", " ", "an", " ", "(", "ID", ":", " ",
             "NAMESPACE.CATEGORY.DETAIL", ")", " ", "field", ".">>,
           <<"Ensure", " ", "What", "/", "Why", "/", "Fix", " ", "are", " ", "present",
             " ", "for", " ", "WARN", "/", "ERROR", ".">> >>,
        << >>,
        << <<"Validation", " ", "errors", " ", "(", "first", " ", "5", ")", ":", " ">>
           \o Join(Take(errors, 5), <<";", " ">>) >>,
        << >>, << >>)

-----------------------------------------------------------------------------
(* render.py and profiles/*_render.py: the renderers *)

\* The lines "  <prefix i><suffix><text i>" of the first n entries
Numbered(seq, n, prefix, suffix) ==
    [i \in 1..Min(Len(seq), n) |-> prefix \o <<ToString(i)>> \o suffix \o seq[i]]

\* The lines lead + text of the first n entries
Listed(seq, n, lead) == [i \in 1..Min(Len(seq), n) |-> lead \o seq[i]]

\* f"{result.anchored_id}" or the word for none
IdOr(result, none) ==
    IF result.anchored_id # None /\ result.anchored_id # "" THEN <<result.anchored_id>>
    ELSE none

\* render_assist: the low-vision layout; five steps and "...", three
\* commands, five notes
render_assist(result) ==
    Join(<<<<"ASSIST", " ", "(", "Low", " ", "Vision", ")", ":">>,
           <<"-", " ", "Anchored", " ", "to", ":", " ">> \o IdOr(result, <<"(", "none", ")">>),
           <<"-", " ", "Confidence", ":", " ", result.confidence>>,
           << >>,
           <<"Safest", " ", "next", " ", "step", ":">>,
           <<" ", " ">> \o result.safest_next_step,
           << >>,
           <<"Plan", ":">> >>
         \o Numbered(result.plan, 5, <<" ", " ">>, <<")", " ">>)
         \o (IF Len(result.plan) > 5 THEN <<<<" ", " ", ".", ".", ".">>>> ELSE << >>)
         \o (IF result.next_safe_commands # << >>
             THEN << << >>, <<"Next", " ", "(", "SAFE", ")", ":">> >>
                  \o Listed(result.next_safe_commands, 3, <<" ", " ">>)
             ELSE << >>)
         \o (IF result.notes # << >>
             THEN << << >>, <<"Notes", ":">> >>
                  \o Listed(result.notes, 5, <<" ", " ", "-", " ">>)
             ELSE << >>),
         <<"\n">>)
    \o <<"\n">>

STEP_LABELS == <<"First", "Next", "Last">>

\* render_cognitive_load: three labelled steps, the first command, two notes
render_cognitive_load(result) ==
    Join(<<<<"ASSIST", " ", "(", "Cognitive", " ", "Load", ")", ":">>,
           <<"-", " ", "Anchored", " ", "to", ":", " ">> \o IdOr(result, <<"(", "none", ")">>),
           <<"-", " ", "Confidence", ":", " ", result.confidence>>,
           << >>,
           <<"Goal", ":", " ", "Get", " ", "back", " ", "to", " ", "a", " ",
             "known-good", " ", "state", ".">>,
           << >>,
           <<"Safest", " ", "next", " ", "step", ":">>,
           <<" ", " ">> \o result.safest_next_step,
           << >>,
           <<"Plan", ":">> >>
         \o [i \in 1..Min(Len(result.plan), 3) |->
               <<" ", " ", STEP_LABELS[i], ":", " ">> \o result.plan[i]]
         \o (IF result.next_safe_commands # << >>
             THEN << << >>, <<"Next", " ", "(", "SAFE", ")", ":">>,
                     <<" ", " ">> \o result.next_safe_commands[1] >>
             ELSE << >>)
         \o (IF result.notes # << >>
             THEN << << >>, <<"Notes", ":">> >>
                  \o Listed(result.notes, 2, <<" ", " ", "-", " ">>)
             ELSE << >>),
         <<"\n">>)
    \o <<"\n">>

\* note.lower().startswith("original title:")
IsTitleNote(note) ==
    Len(note) >= 4 /\ LowerSeq(SubSeq(note, 1, 4)) = <<"original", " ", "title", ":">>

RECURSIVE TitleFromNotes(_)
\* The first non-empty title among the "Original title:" notes, capped
\* and closed with a period; no such note gives the empty text.
TitleFromNotes(notes) ==
    IF notes = << >> THEN << >>
    ELSE LET title == AfterFirstColon(Head(notes))
         IN IF IsTitleNote(Head(notes)) /\ title # << >>
            THEN SR_ensure_period(SR_cap_length(title, 80))
            ELSE TitleFromNotes(Tail(notes))

\* generate_summary: the title of the notes, or a sentence by confidence
generate_summary(result) ==
    IF TitleFromNotes(result.notes) # << >> THEN TitleFromNotes(result.notes)
    ELSE CASE result.confidence = "High" ->
                <<"A", " ", "structured", " ", "error", " ", "was", " ", "detected", ".">>
           [] result.confidence = "Medium" ->
                <<"An", " ", "error", " ", "was", " ", "detected", " ", "with", " ",
                  "partial", " ", "information", ".">>
           [] OTHER ->
                <<"The", " ", "input", " ", "did", " ", "not", " ", "include", " ", "a",
                  " ", "stable", " ", "error", " ", "identifier", ".">>

\* render_screen_reader: every step, the first command, every note
render_screen_reader(result) ==
    Join(<<<<"ASSIST", ".", " ", "Profile", ":", " ", "Screen", " ", "reader", ".">>,
           <<"Anchored", " ", "I", " ", "D", ":", " ">> \o IdOr(result, <<"none">>) \o <<".">>,
           <<"Confidence", ":", " ", result.confidence, ".">>,
           << >>,
           <<"Summary", ":", " ">> \o generate_summary(result),
           << >>,
           <<"Safest", " ", "next", " ", "step", ":", " ">> \o result.safest_next_step,
           << >>,
           <<"Steps", ":">> >>
         \o Numbered(result.plan, Len(result.plan), <<"Step", " ">>, <<":", " ">>)
         \o (IF result.next_safe_commands # << >>
             THEN << << >>, <<"Next", " ", "safe", " ", "command", ":">>,
                     result.next_safe_commands[1] >>
             ELSE << >>)
         \o (IF result.notes = << >> THEN << >>
             ELSE IF Len(result.notes) = 1
                  THEN << << >>, <<"Note", ":", " ">> \o result.notes[1] >>
                  ELSE << << >>, <<"Notes", ":">> >> \o result.notes),
         <<"\n">>)
    \o <<"\n">>

\* render_dyslexia: every step, the first command unless confidence is
\* Low, two notes; no line break at the end
render_dyslexia(result) ==
    Join(<<<<"ASSIST", " ", "(", "Dyslexia", ")", ":">>,
           << >>,
           <<"Anchored", " ", "ID", ":", " ">> \o IdOr(result, <<"none">>),
           << >>,
           <<"Confidence", ":", " ", result.confidence>>,
           << >>,
           <<"Safest", " ", "next", " ", "step", ":">>,
           <<" ", " ">> \o result.safest_next_step,
           << >> >>
         \o (IF result.plan # << >>
             THEN <<<<"Plan", ":">>>>
                  \o Numbered(result.plan, Len(result.plan),
                              <<" ", " ", "-", " ", "Step", " ">>, <<":", " ">>)
                  \o << << >> >>
             ELSE << >>)
         \o (IF result.next_safe_commands # << >> /\ result.confidence # "Low"
             THEN << <<"Next", " ", "safe", " ", "command", ":">>,
                     <<" ", " ">> \o result.next_safe_commands[1], << >> >>
             ELSE << >>)
         \o (IF result.notes # << >>
             THEN <<<<"Notes", ":">>>>
                  \o Listed(result.notes, 2, <<" ", " ", "-", " ">>)
                  \o << << >> >>
             ELSE << >>),
         <<"\n">>)

\* render_plain_language: every step, the first command unless confidence
\* is Low, no notes; no line break at the end
render_plain_language(result) ==
    Join(<<<<"ASSIST", " ", "(", "Plain", " ", "Language", ")">>,
           <<"ID", ":", " ">> \o IdOr(result, <<"none">>),
           <<"Confidence", ":", " ", result.confidence>>,
           << >>,
           <<"What", " ", "to", " ", "do", " ", "next", ":">>,
           <<" ", " ">> \o result.safest_next_step,
           << >> >>
         \o (IF result.plan # << >>
             THEN <<<<"Steps", ":">>>>
                  \o Numbered(result.plan, Len(result.plan), <<" ", " ">>, <<".", " ">>)
                  \o << << >> >>
             ELSE << >>)
         \o (IF result.next_safe_commands # << >> /\ result.confidence # "Low"
             THEN << <<"Safe", " ", "command", ":">>,
                     <<" ", " ">> \o result.next_safe_commands[1], << >> >>
             ELSE << >>),
         <<"\n">>)

\* The default renderer prints the audit trail after the text.
get_renderer_with_trail(p, result) ==
    CASE p = "cognitive-load" -> render_cognitive_load(result)
      [] p = "screen-reader" -> render_screen_reader(result)
      [] p = "dyslexia" -> render_dyslexia(result)
      [] p = "plain-language" -> render_plain_language(result)
      [] OTHER -> render_assist(result) \o result.methods_applied

\* get_renderer(profile)(result)
get_renderer(p, result) ==
    CASE p = "cognitive-load" -> render_cognitive_load(result)
      [] p = "screen-reader" -> render_screen_reader(result)
      [] p = "dyslexia" -> render_dyslexia(result)
      [] p = "plain-language" -> render_plain_language(result)
      [] OTHER -> render_assist(result)

-----------------------------------------------------------------------------
(* a11y-ci: severity.py *)

SEVERITY_ORDER == <<"info", "minor", "moderate", "serious", "critical">>

\* (s or "").strip().lower() on the spellings the inputs use
SeverityLower(s) ==
    CASE s = "Serious" -> "serious"
      [] s = " critical " -> "critical"
      [] OTHER -> s

normalize_severity(s) ==
    LET t == SeverityLower(s) IN
    IF t \in Range(SEVERITY_ORDER) THEN t
    ELSE IF t = "warning" THEN "moderate"
    ELSE IF t = "error" THEN "serious"
    ELSE "info"

\* SEVERITY_RANK of the normalized severity: 0 for info up to 4 for critical
severity_rank(s) ==
    (CHOOSE i \in 1..Len(SEVERITY_ORDER) : SEVERITY_ORDER[i] = normalize_severity(s)) - 1

\* A threshold that a finding has to exceed.
is_above(s, threshold) == severity_rank(s) > severity_rank(threshold)

is_at_least(s, threshold) == severity_rank(s) >= severity_rank(threshold)

-----------------------------------------------------------------------------
(* a11y-ci: scorecard.py *)
(* A finding is the dict of a scorecard with its keys id, rule_id,         *)
(* fingerprint, severity and message; a key that is absent is None, an     *)
(* absent fingerprint is the empty sequence.  A fingerprint is a sequence  *)
(* of strings: the given text, or what compute_fingerprint hashes.         *)

\* The order of str on the names the inputs use; sha256 stands for the
\* hexadecimal digest, which sorts before fp1
Collation == <<"A.ONE", "B.TWO", "UNKNOWN:m", "sha256", "fp1", "fp2", "m">>

Ord(name) == CHOOSE i \in 1..Len(Collation) : Collation[i] = name

RECURSIVE TextLess(_, _)
TextLess(a, b) ==
    IF b = << >> THEN FALSE
    ELSE IF a = << >> THEN TRUE
    ELSE IF Ord(a[1]) # Ord(b[1]) THEN Ord(a[1]) < Ord(b[1])
    ELSE TextLess(Tail(a), Tail(b))

\* sha256 of the identity fields id and message (the inputs have no location)
compute_fingerprint(f) == <<"sha256", f.id, f.message>>

\* The first of id, rule_id that is a non-blank string, else UNKNOWN:<message>
finding_id(f) ==
    IF f.id # None THEN f.id
    ELSE IF f.rule_id # None THEN f.rule_id
    ELSE "UNKNOWN:m"

\* The copy canonicalize makes of a finding: id and fingerprint filled in
WithIdentity(f) ==
    LET f_copy == IF f.id = None THEN [f EXCEPT !.id = finding_id(f)] ELSE f IN
    IF f_copy.fingerprint = << >>
    THEN [f_copy EXCEPT !.fingerprint = compute_fingerprint(f_copy)]
    ELSE f_copy

\* The sort key of canonicalize: severity descending, id, fingerprint
SortsBefore(f, g) ==
    IF severity_rank(f.severity) # severity_rank(g.severity)
    THEN severity_rank(f.severity) > severity_rank(g.severity)
    ELSE IF f.id # g.id THEN Ord(f.id) < Ord(g.id)
    ELSE TextLess(f.fingerprint, g.fingerprint)

\* Scorecard.canonicalize on the list of findings: one finding for each
\* fingerprint, the first of the highest severity, in the order of the key
canonicalize(findings) ==
    LET copies == [i \in 1..Len(findings) |-> WithIdentity(findings[i])]
        unique_findings ==
            {copies[i] : i \in {i \in 1..Len(copies) :
                /\ \A j \in 1..(i - 1) :
                      copies[j].fingerprint = copies[i].fingerprint =>
                          severity_rank(copies[j].severity) < severity_rank(copies[i].severity)
                /\ \A j \in (i + 1)..Len(copies) :
                      copies[j].fingerprint = copies[i].fingerprint =>
                          severity_rank(copies[j].severity) <= severity_rank(copies[i].severity)}}
    IN [k \in 1..Cardinality(unique_findings) |->
           CHOOSE f \in unique_findings :
               Cardinality({g \in unique_findings : SortsBefore(g, f)}) = k - 1]

\* Scorecard.load on a file with these findings: severities normalized,
\* then canonicalize
Scorecard_load(findings) ==
    canonicalize([i \in 1..Len(findings) |->
                     [findings[i] EXCEPT !.severity = normalize_severity(@)]])

Scorecard_counts(findings) ==
    [sev \in Range(SEVERITY_ORDER) |->
        Cardinality({i \in 1..Len(findings) :
                        normalize_severity(findings[i].severity) = sev})]

findings_at_or_above(findings, threshold) ==
    SelectSeq(findings, LAMBDA f : is_at_least(f.severity, threshold))

\* sorted(set(ids)) of the findings at or above the threshold
ids_at_or_above(findings, threshold) ==
    LET blocking == findings_at_or_above(findings, threshold)
        ids == {finding_id(blocking[i]) : i \in 1..Len(blocking)}
    IN [k \in 1..Cardinality(ids) |->
           CHOOSE id \in ids : Cardinality({other \in ids : Ord(other) < Ord(id)}) = k - 1]

-----------------------------------------------------------------------------
(* a11y-ci: allowlist.py *)
(* An entry has id, kind and expires; expires is the entry's text split at *)
(* "-" with each part read as an integer, a date is year, month and day.   *)

DaysInMonth(y, m) ==
    IF m = 2 THEN (IF (y % 4 = 0 /\ y % 100 # 0) \/ y % 400 = 0 THEN 29 ELSE 28)
    ELSE IF m \in {4, 6, 9, 11} THEN 30 ELSE 31

\* y, m, d = e.expires.split("-"); date(int(y), int(m), int(d)) does not raise
IsDate(parts) ==
    /\ Len(parts) = 3
    /\ parts[1] \in 1..9999
    /\ parts[2] \in 1..12
    /\ parts[3] \in 1..DaysInMonth(parts[1], parts[2])

\* exp < today
DateBefore(exp, today) ==
    \/ exp[1] < today[1]
    \/ exp[1] = today[1] /\ exp[2] < today[2]
    \/ exp[1] = today[1] /\ exp[2] = today[2] /\ exp[3] < today[3]

\* An entry's id is the text of a finding id or of a fingerprint
is_suppressed(entries, f) ==
    \E i \in 1..Len(entries) :
        \/ entries[i].kind = "id" /\ entries[i].id = <<f.id>>
        \/ entries[i].kind = "fingerprint" /\ entries[i].id = f.fingerprint

expired_entries(entries, today) ==
    SelectSeq(entries, LAMBDA e : ~IsDate(e.expires) \/ DateBefore(e.expires, today))

active_entries(entries, today) ==
    LET exps == Range(expired_entries(entries, today)) IN
    SelectSeq(entries, LAMBDA e : e \notin exps)

-----------------------------------------------------------------------------
(* a11y-ci: gate.py *)
(* A scorecard is its list of findings; the optional baseline and          *)
(* allowlist are sequences of none or one.  A reason is named by its rule, *)
(* the numbers and ids of its sentence are in the other fields of the      *)
(* result.  The date is read once by expired_entries and once more by      *)
(* active_entries.                                                         *)

apply_allowlist(scorecard, entries) ==
    canonicalize(SelectSeq(scorecard, LAMBDA f : ~is_suppressed(entries, f)))

\* get_blocking_fingerprints
blocking_fingerprints(findings, fail_on) ==
    {f.fingerprint : f \in {g \in Range(findings_at_or_above(findings, fail_on)) :
                                g.fingerprint # << >>}}

count_at_or_above(counts, thr) ==
    LET RECURSIVE Sum(_)
        Sum(i) == IF i > Len(SEVERITY_ORDER) THEN 0
                  ELSE (IF is_at_least(SEVERITY_ORDER[i], thr)
                        THEN counts[SEVERITY_ORDER[i]] ELSE 0) + Sum(i + 1)
    IN Sum(1)

gate(current, baseline, fail_on_arg, allowlist, today_expired, today_active) ==
    LET fail_on == normalize_severity(fail_on_arg)
        expired == IF allowlist # << >>
                   THEN expired_entries(allowlist[1], today_expired) ELSE << >>
        cur == IF allowlist # << >>
               THEN apply_allowlist(current, active_entries(allowlist[1], today_active))
               ELSE current
        base_card == IF allowlist # << >> /\ baseline # << >>
                     THEN <<apply_allowlist(baseline[1],
                                            active_entries(allowlist[1], today_active))>>
                     ELSE baseline
        cur_counts == Scorecard_counts(cur)
        cur_blocking_ids == ids_at_or_above(cur, fail_on)
        base_blocking_ids ==
            IF base_card # << >> THEN Range(ids_at_or_above(base_card[1], fail_on)) ELSE {}
        new_ids == SelectSeq(cur_blocking_ids, LAMBDA bid : bid \notin base_blocking_ids)
        new_fps == IF base_card # << >>
                   THEN blocking_fingerprints(cur, fail_on)
                            \ blocking_fingerprints(base_card[1], fail_on)
                   ELSE {}
        cur_total == count_at_or_above(cur_counts, fail_on)
        base_total == IF base_card # << >>
                      THEN count_at_or_above(Scorecard_counts(base_card[1]), fail_on) ELSE 0
        reasons ==
            (IF expired # << >> THEN <<"expired">> ELSE << >>)
            \o (IF cur_blocking_ids # << >> THEN <<"current">> ELSE << >>)
            \o (IF base_card # << >> /\ new_ids # << >> THEN <<"new_ids">> ELSE << >>)
            \o (IF base_card # << >> /\ cur_total > base_total THEN <<"count">> ELSE << >>)
    IN [ok |-> reasons = << >>,
        reasons |-> reasons,
        current_blocking_ids |-> cur_blocking_ids,
        new_blocking_ids |-> IF base_card # << >> THEN new_ids ELSE << >>,
        current_counts |-> cur_counts,
        baseline_counts |-> IF base_card # << >> THEN <<Scorecard_counts(base_card[1])>> ELSE << >>,
        new_fingerprints |-> new_fps]

\* No gate has been called
NoGateCall ==
    [stage |-> "idle", current |-> << >>, baseline |-> << >>, fail_on |-> "serious",
     allowlist |-> << >>, today |-> << >>, today_active |-> << >>, result |-> << >>]

-----------------------------------------------------------------------------
(* Bounded inputs *)

\* Most Fix lines of an input, and most plan steps of a constructed result.
MaxPlanLen == 6
\* Most commands handed to the Guard in a direct call.
MaxGuardCmds == 2

\* n copies of x
Repeat(x, n) == [i \in 1..n |-> x]

\* Texts of one step, line or note: plain words, commands with and without
\* prompt prefixes, brackets in every arrangement, visual references, joined
\* clauses, abbreviations, and the empty text.
StepSamples ==
    {<<"w">>,
     << >>,
     <<"x", " ", "--dry-run">>,
     <<"$", " ", "x", " ", "--dry-run">>,
     <<"$", "$", " ", "x", " ", "--dry-run">>,
     <<"w", " ", "(", "w", ")", " ", "w">>,
     <<"(", "see", " ", "docs", ")">>,
     <<"w", " ", ")">>,
     <<"(", "(", "a", ")", " ", "b", ")">>,
     <<"w", " ", "[", " ", "w">>,
     <<"see", " ", "above", " ", "w">>,
     <<"click", " ", "right", "_", " ", "now">>,
     <<"w", " ", "and", " ", "w", " ", "because", " ", "w">>,
     <<"Run", " ", "CLI", " ", "w", ".", " ", "Then", " ", "w">>,
     <<"CLI", " ", "w", " ", "CLI">>}

FillerSteps == {<<"w">>, <<"y", " ", "--dry-run">>}

\* first, then n - 1 times filler
StepList(first, filler, n) ==
    IF n = 0 THEN << >> ELSE <<first>> \o Repeat(filler, n - 1)

RECURSIVE Flatten(_)
Flatten(seqs) == IF seqs = << >> THEN << >> ELSE Head(seqs) \o Flatten(Tail(seqs))

\* A tool's output on stdin: the status line, with or without (ID: A.B), and
\* a Fix: block of indented lines.
TriageText(hasId, steps) ==
    <<"[", "ERROR", "]", " ", "w">>
    \o (IF hasId THEN <<" ", "(", "ID", ":", " ", "A.B", ")">> ELSE << >>)
    \o <<"\n">>
    \o (IF steps = << >> THEN << >>
        ELSE <<"Fix", ":", "\n">>
             \o Flatten([i \in 1..Len(steps) |-> <<" ", " ">> \o steps[i] \o <<"\n">>]))

\* Texts with several ids, with near misses of the (ID: ...) pattern, and
\* with blank, unindented and early lines around the blocks.
TriageOddTexts ==
    {<<"w", " ", "(", "ID", ":", " ", "C.D", ")", " ", "(", "ID", ":", " ", "A.B", ")", "\n">>,
     <<"(", "ID", ":", " ", "w", ")", " ", "(", "ID", ":", "A.B", ")">>,
     <<"(", "ID", ":", " ", "A.B", " ", ")", "\n">>,
     <<"ID", ":", " ", "A.B", "\n">>,
     <<"(", "ID", ":", " ", "A", ")", "\n", "Fix", ":", "\n", " ", " ", "(", "ID", ":", "\n",
       " ", "NAMESPACE.CATEGORY.DETAIL", ")", "\n">>,
     <<" ", " ", "y", "\n", "Fix", ":", "\n", " ", " ", "w", "\n", "\n", " ", "\n",
       " ", " ", " ", "x", " ", "\n", "y", "\n", " ", " ", "w", "\n">>,
     <<"What", ":", "\n", " ", " ", "w", "\n", " ", "Fix", ":", " ", "\n", " ", " ", "x",
       "\n", " ", "y", "\n", "Why", ":", "\n", " ", " ", "w">>}

TriageInputs ==
    {TriageText(hasId, StepList(first, filler, n)) :
        hasId \in BOOLEAN, first \in StepSamples, filler \in FillerSteps,
        n \in 0..MaxPlanLen}
    \cup TriageOddTexts

\* Commands of a result built by a caller of the library.
CommandSamples ==
    {<<"x", " ", "--dry-run">>,
     <<"$", " ", "x", " ", "--dry-run">>,
     <<"$", "$", " ", "x", " ", "--dry-run">>}

CommandLists ==
    {<< >>, Repeat(<<"y", " ", "--dry-run">>, 4)} \cup {<<c>> : c \in CommandSamples}

\* AssistResult objects a caller of the library builds directly; the
\* dataclass defaults leave methods_applied and evidence empty.
ConstructedResults ==
    {AssistResult(id, conf, s, StepList(s, <<"w">>, n), cmds, <<s>>, << >>, << >>) :
        id \in {None, "A.B"}, conf \in Confidences, s \in StepSamples,
        n \in 0..MaxPlanLen, cmds \in CommandLists}

\* Results a caller hands over with audit fields already filled: ones that
\* went through a pipeline before, and ones with a trail of the caller's
\* making.
AuditTrails ==
    {<<METHOD_NORMALIZE_RAW_TEXT>>,
     <<METHOD_PROFILE("lowvision")>>,
     <<METHOD_NORMALIZE_RAW_TEXT, METHOD_PROFILE("lowvision"), METHOD_GUARD_VALIDATE>>,
     <<METHOD_GUARD_VALIDATE, METHOD_PROFILE("dyslexia")>>,
     <<METHOD_PROFILE("cognitive-load"), METHOD_PROFILE("screen-reader"),
       METHOD_PROFILE("plain-language")>>}

AuditedResults ==
    {AssistResult(None, conf, <<"w">>, Repeat(<<"w">>, n), cmds, <<<<"w">>>>, trail, ev) :
        conf \in Confidences, n \in {1, MaxPlanLen},
        cmds \in {<< >>, <<<<"x", " ", "--dry-run">>>>},
        trail \in AuditTrails,
        ev \in {<< >>, <<Evidence(<<"plan", 0>>, <<"raw_text:Fix", 1>>)>>}}

\* Arguments of a direct call of validate_profile_transform.
GuardCmdSamples ==
    {<<"c">>, <<"$", " ", "c">>, <<"$", "$", "c">>, <<" ", "c">>, <<"d">>}

RECURSIVE SeqsUpTo(_, _)
\* All sequences over S of length at most n
SeqsUpTo(S, n) ==
    IF n = 0 THEN {<< >>}
    ELSE LET shorter == SeqsUpTo(S, n - 1)
         IN shorter \cup {Append(q, x) : q \in shorter, x \in S}

\* Lines of a fix field: plain, blank, padded, with --dry-run, with the
\* command prefixes, with Re-run: in three letter cases, with and without a
\* safe word.
FixLineSamples ==
    {<<"w">>,
     <<" ">>,
     <<" ", "w", " ">>,
     <<"x", " ", "--dry-run">>,
     <<"$", " ", "validate", " ", "x">>,
     <<" ", "$", " ", "check", " ", "x">>,
     <<">", " ", "x", " ", "--dry-run", " ", ">", " ", "y">>,
     <<"run", " ", "check">>,
     <<"Re-run", ":", " ", "x", " ", "--dry-run">>,
     <<"RE-RUN", ":", " ", "validate">>,
     <<" ", "re-run", ":", " ", "check">>,
     <<"$", " ", "y">>}

\* Most lines of a fix list drawn freely from the samples.
MaxFixLines == 2

\* Lists that give more than three safe commands, and the same command
\* more than once.
LongFixLists ==
    {<<<<"x", " ", "--dry-run">>, <<"$", " ", "validate", " ", "x">>,
       <<"w">>, <<"run", " ", "check">>, <<"y", " ", "--dry-run">>>>,
     <<<<"x", " ", "--dry-run">>, <<"$", " ", "x", " ", "--dry-run">>,
       <<"Re-run", ":", " ", "x", " ", "--dry-run">>, <<"run", " ", "check">>,
       <<"$", " ", "check", " ", "y">>, <<"validate">>, <<"y", " ", "--dry-run">>>>}

FixValues ==
    {Absent} \cup {Str(line) : line \in FixLineSamples}
    \cup {List(lines) : lines \in SeqsUpTo(FixLineSamples \cup {<< >>}, MaxFixLines) \cup LongFixLists}

\* Schema-valid objects: code is always there, id may be missing.
ValidCliErrors ==
    {CliError(<<"A.B">>, "PAY001", <<<<"w">>>>, Str(<<"y">>), Str(<<"w">>), fix) : fix \in FixValues}
    \cup {CliError(id, "PAY001", title, what, why, fix) :
            id \in {<< >>, <<"A.B">>}, title \in {<< >>, <<<<"w">>>>},
            what \in {Absent, Str(<<"y">>), List(<<<<"x">>, <<"y">>>>)},
            why \in {Absent, Str(<<"w">>), Str(<<" ">>), List(<< >>), List(<<<<"w">>>>)},
            fix \in {Absent, Str(<<" ">>), List(<<<<"w">>>>)}}

\* Messages of CliErrorValidationError: "loc: message"
ErrorSamples ==
    {<<"(", "root", ")", ":", " ", "'", "code", "'", " ", "is", " ", "a", " ",
       "required", " ", "property">>,
     <<"fix", ":", " ", "[", "[", "5", "]", "]", " ", "is", " ", "not", " ", "of", " ",
       "type", " ", "'", "string", "'">>}

\* Most messages of one validation failure.
MaxErrors == 6

ErrorLists ==
    {StepList(first, filler, n) : first \in ErrorSamples, filler \in ErrorSamples, n \in 1..MaxErrors}

\* The text of the file explain_cmd reads back: the object in JSON
Quoted(text) == <<"\"">> \o text \o <<"\"">>

JsonValue(value) ==
    IF value.kind = "str" THEN Quoted(value.v[1])
    ELSE <<"[">> \o Join([i \in 1..Len(value.v) |-> Quoted(value.v[i])], <<",", " ">>) \o <<"]">>

JsonMember(key, value) ==
    IF value.kind = "absent" THEN << >> ELSE <<Quoted(<<key>>) \o <<":", " ">> \o JsonValue(value)>>

JsonText(obj) ==
    <<"{">>
    \o Join((IF obj.id = << >> THEN << >> ELSE JsonMember("id", Str(<<obj.id[1]>>)))
            \o JsonMember("code", Str(<<obj.code>>))
            \o (IF obj.title = << >> THEN << >> ELSE JsonMember("title", Str(obj.title[1])))
            \o JsonMember("what", obj.what) \o JsonMember("why", obj.why)
            \o JsonMember("fix", obj.fix),
            <<",", " ">>)
    \o <<"}">>

GuardIds == {None, "A.B", "C.D"}
GuardProfiles == {"lowvision", "screen-reader"}
GuardAllowedSets == {{}, {<<"c">>}, {<<"$", " ", "c">>}, {<<"c">>, <<"d">>}}

\* A result that differs from the defaults only where the Guard's id,
\* confidence and command checks look.
GuardResult(id, conf, cmds) ==
    AssistResult(id, conf, <<"w">>, <<<<"w">>>>, cmds, << >>, << >>, << >>)

\* Calls that vary ids, confidences, commands and the allowed set.
GuardCallsOnCommands ==
    {<<GuardResult(bid, bconf, << >>), GuardResult(pid, pconf, cmds),
       get_guard_context(p, cconf, "raw_text", allowed)>> :
        bid \in {None, "A.B"}, pid \in GuardIds, bconf \in Confidences,
        pconf \in Confidences, cconf \in Confidences,
        cmds \in SeqsUpTo(GuardCmdSamples, MaxGuardCmds),
        allowed \in GuardAllowedSets, p \in GuardProfiles}

\* Calls that vary the profile (one of them unknown to get_guard_context),
\* the plan length and the text of the fields, alone or together with an
\* invented id and an invented command.
GuardCallsOnText ==
    {<<GuardResult(None, conf, << >>),
       AssistResult(IF faulty THEN "A.B" ELSE None, conf, s, StepList(s, <<"w">>, n),
                    IF faulty THEN <<<<"d">>>> ELSE << >>, <<s>>, << >>, << >>),
       get_guard_context(p, conf, "raw_text", {})>> :
        conf \in Confidences, s \in StepSamples, n \in 0..MaxPlanLen,
        faulty \in BOOLEAN, p \in PROFILE_CHOICES \cup {"custom"}}

-----------------------------------------------------------------------------
(* Output and exit *)

\* The commands of the command line
CliCommands == {"explain", "triage", "last"}

\* SystemExit(2): the input was rejected.
USAGE_EXIT == 2
\* SystemExit(2) of _handle_guard_violation
GUARD_FAIL_EXIT == 2
\* The interpreter's exit status after an exception nothing caught
UNCAUGHT_EXIT == 1

\* What output_result writes: the JSON response or the rendered text of
\* the guarded result on stdout, and the JSON response in the --json-out
\* file.
output_result(rendered_of, result, json_response, json_out) ==
    [stdout |-> IF json_response THEN <<[kind |-> "json", result |-> result]>>
                ELSE <<[kind |-> "rendered", result |-> rendered_of]>>,
     json_file |-> IF json_out THEN <<[kind |-> "json", result |-> result]>> ELSE << >>]

\* A handler that also echoes the violation on stdout.
_handle_guard_violation_on_stdout(e) ==
    [stdout |-> <<[kind |-> "rendered", result |-> None]>>,
     stderr |-> <<"A11Y.ASSIST.ENGINE.GUARD.FAIL">>,
     exit |-> GUARD_FAIL_EXIT]

\* The error block and the guard codes on stderr, nothing on stdout, and
\* the exit status.
_handle_guard_violation(e) ==
    [stdout |-> << >>,
     stderr |-> <<"A11Y.ASSIST.ENGINE.GUARD.FAIL">> \o [k \in 1..Len(e) |-> e[k].code],
     exit |-> GUARD_FAIL_EXIT]

-----------------------------------------------------------------------------
(* The state machine *)

Init ==
    /\ pc = "start"
    /\ command = None
    /\ profile = None
    /\ input_kind = None
    /\ base_text = << >>
    /\ base = None
    /\ profiled = None
    /\ ctx = None
    /\ issues = << >>
    /\ violation = << >>
    /\ failure = None
    /\ stdout = << >>
    /\ stderr = << >>
    /\ json_file = << >>
    /\ exit_status = << >>
    /\ cli_error = None
    /\ rendered = << >>
    /\ earlier = << >>
    /\ ci = NoGateCall

\* triage_cmd: stdin is read and parsed, the base result is built.
TriageCmd ==
    /\ pc = "start"
    /\ \E text \in TriageInputs, p \in PROFILE_CHOICES :
          /\ profile' = p
          /\ base_text' = text
          /\ base' = triage_result(text)
    /\ pc' = "constructed"
    /\ command' = "triage"
    /\ input_kind' = "raw_text"
    /\ UNCHANGED <<profiled, ctx, issues, violation, io>>
    /\ UNCHANGED <<cli_error, rendered, earlier, ci>>

\* A caller of the library builds a result and names a profile.
Construct ==
    /\ pc = "start"
    /\ \E result \in ConstructedResults \cup AuditedResults, p \in PROFILE_CHOICES :
          /\ profile' = p
          /\ base' = result
    /\ pc' = "constructed"
    /\ command' = "library"
    /\ input_kind' = "raw_text"
    /\ base_text' = << >>
    /\ UNCHANGED <<profiled, ctx, issues, violation, io>>
    /\ UNCHANGED <<cli_error, rendered, earlier, ci>>

\* render_with_profile_guarded: the transform, the context, the
\* validation and, when it passes, the Guard's method id and the text the
\* profile's renderer returns.
RenderWithProfileGuarded ==
    /\ pc = "constructed"
    /\ \E order \in IterationOrders(Range(base.next_safe_commands)) :
       LET transformed == apply_profile(base, profile)
           context == Iterated(get_guard_context(profile, base.confidence, input_kind,
                                                 Range(base.next_safe_commands)), order)
           found == validate_profile_transform(base_text, base, transformed, context)
       IN /\ ctx' = context
          /\ issues' = found
          /\ violation' = GuardViolation(found)
          /\ IF GuardViolation(found) = << >>
             THEN /\ profiled' = with_method(transformed, METHOD_GUARD_VALIDATE)
                  /\ rendered' = <<get_renderer(profile, profiled')>>
                  /\ pc' = "validated"
             ELSE /\ profiled' = transformed
                  /\ rendered' = << >>
                  /\ pc' = "guard_violation"
    /\ UNCHANGED <<command, profile, input_kind, base_text, base, io>>
    /\ UNCHANGED <<cli_error, earlier, ci>>

\* validate_profile_transform called on its own, on any pair of results,
\* with a context from get_guard_context.
ValidateCall ==
    /\ pc = "start"
    /\ \E call \in GuardCallsOnCommands \cup GuardCallsOnText :
          /\ base' = call[1]
          /\ profiled' = call[2]
          /\ \E order \in IterationOrders(call[3].allowed_safe_commands) :
                ctx' = Iterated(call[3], order)
    /\ profile' = ctx'.profile
    /\ command' = "guard"
    /\ input_kind' = "raw_text"
    /\ base_text' = << >>
    /\ issues' = validate_profile_transform(base_text', base', profiled', ctx')
    /\ violation' = GuardViolation(issues')
    /\ pc' = IF violation' = << >> THEN "validated" ELSE "guard_violation"
    /\ UNCHANGED io
    /\ UNCHANGED <<cli_error, rendered, earlier, ci>>

\* explain_cmd on a file that holds a schema-valid object
ExplainCmd ==
    /\ pc = "start"
    /\ \E obj \in ValidCliErrors, p \in PROFILE_CHOICES :
          /\ profile' = p
          /\ cli_error' = obj
          /\ base_text' = JsonText(obj)
          /\ base' = assist_from_cli_error(obj)
    /\ pc' = "constructed"
    /\ command' = "explain"
    /\ input_kind' = "cli_error_json"
    /\ UNCHANGED <<profiled, ctx, issues, violation, io, rendered, earlier, ci>>

\* explain_cmd on a file whose JSON the schema rejects: load_cli_error
\* raises CliErrorValidationError and the handler builds the Low result;
\* the exit with USAGE_EXIT follows the output.
ExplainCmdInvalid ==
    /\ pc = "start"
    /\ \E errors \in ErrorLists, p \in PROFILE_CHOICES :
          /\ profile' = p
          /\ base_text' = Join(errors, <<";", " ">>)
          /\ base' = invalid_result(errors)
    /\ pc' = "constructed"
    /\ command' = "explain"
    /\ input_kind' = "cli_error_json"
    /\ failure' = "schema_invalid"
    /\ UNCHANGED <<profiled, ctx, issues, violation, stdout, stderr, json_file, exit_status>>
    /\ UNCHANGED <<cli_error, rendered, earlier, ci>>

\* explain_cmd on a file that is not JSON: json.loads raises
\* JSONDecodeError, which no handler of the command catches; the
\* interpreter prints the traceback and exits.
ExplainCmdMalformed ==
    /\ pc = "start"
    /\ \E p \in PROFILE_CHOICES : profile' = p
    /\ command' = "explain"
    /\ failure' = "malformed"
    /\ stderr' = <<"Traceback", "json.decoder.JSONDecodeError">>
    /\ exit_status' = <<UNCAUGHT_EXIT>>
    /\ pc' = "crashed"
    /\ UNCHANGED <<input_kind, base_text, base, profiled, ctx, issues, violation,
                   stdout, json_file>>
    /\ UNCHANGED <<cli_error, rendered, earlier, ci>>

\* triage_cmd without --stdin: the usage line and the exit.
TriageCmdNoStdin ==
    /\ pc = "start"
    /\ \E p \in PROFILE_CHOICES : profile' = p
    /\ command' = "triage"
    /\ failure' = "no_stdin"
    /\ stderr' = <<"Use: a11y-assist triage --stdin">>
    /\ exit_status' = <<USAGE_EXIT>>
    /\ pc' = "rejected"
    /\ UNCHANGED <<input_kind, base_text, base, profiled, ctx, issues, violation,
                   stdout, json_file>>
    /\ UNCHANGED <<cli_error, rendered, earlier, ci>>

\* The end of a command whose guarded pipeline returned: the result is
\* transformed again for the JSON forms, output_result writes, and the
\* command returns, or exits when its input had been rejected.
\* --json-response and --json-out are read here for the first time.
OutputResult ==
    /\ pc = "validated"
    /\ command \in CliCommands
    /\ \E json_response \in BOOLEAN, json_out \in BOOLEAN :
          LET transformed == with_method(apply_profile(base, profile), METHOD_GUARD_VALIDATE)
              out == output_result(profiled, transformed, json_response, json_out)
          IN /\ stdout' = stdout \o out.stdout
             /\ json_file' = out.json_file
    /\ exit_status' = IF failure = None THEN <<0>> ELSE <<USAGE_EXIT>>
    /\ pc' = "emitted"
    /\ UNCHANGED <<command, profile, input_kind, base_text, base, profiled, ctx,
                   issues, violation, failure, stderr>>
    /\ UNCHANGED <<cli_error, rendered, earlier, ci>>

\* except GuardViolation: _handle_guard_violation
HandleGuardViolation ==
    /\ pc = "guard_violation"
    /\ command \in CliCommands
    /\ stdout' = stdout \o _handle_guard_violation(violation).stdout
    /\ stderr' = stderr \o _handle_guard_violation(violation).stderr
    /\ exit_status' = <<_handle_guard_violation(violation).exit>>
    /\ pc' = "failed"
    /\ UNCHANGED <<command, profile, input_kind, base_text, base, profiled, ctx,
                   issues, violation, failure, json_file>>
    /\ UNCHANGED <<cli_error, rendered, earlier, ci>>

Next ==
    \/ TriageCmd
    \/ Construct
    \/ RenderWithProfileGuarded
    \/ ValidateCall
    \/ TriageCmdNoStdin
    \/ ExplainCmd
    \/ ExplainCmdInvalid
    \/ ExplainCmdMalformed
    \/ OutputResult
    \/ HandleGuardViolation

Spec == Init /\ [][Next]_vars

-----------------------------------------------------------------------------
(* Repeated runs on one input *)

\* Most runs of the pipeline on one input.
MaxRuns == 2

\* The run has ended: a command has written and returned or exited, a
\* library call has returned or raised.
RunOver ==
    \/ pc \in {"emitted", "failed"}
    \/ command = "library" /\ pc \in {"validated", "guard_violation"}

\* What a run leaves for the comparison: the verdict, the guard codes and
\* the rendered text, with the result it ran on and the set order the
\* process had.
Outcome ==
    [accepted |-> violation = << >>,
     codes |-> {issues[k].code : k \in 1..Len(issues)},
     text |-> rendered,
     input |-> base,
     order |-> ctx.iteration]

\* The first run of a series.  The series are run where a run has the
\* most to decide: on inputs of the commands that give two commands or
\* more, so that the allowed set has more than one order, and on the
\* High results a caller hands over with their audit fields filled.
FirstRun ==
    \/ /\ TriageCmd
       /\ Len(base'.next_safe_commands) >= 2
       /\ Len(base'.plan) \in {2, MaxPlanLen}
    \/ ExplainCmd /\ Len(base'.next_safe_commands) >= 2
    \/ Construct /\ base' \in AuditedResults /\ base'.confidence = "High"

\* The same input is run again, in the loop of the tests or as a new
\* process: the base result is constructed anew from the input, every
\* local of the run before is gone, the streams are new, the --json-out
\* file is still on disk.
Rerun ==
    /\ RunOver
    /\ Len(earlier) < MaxRuns - 1
    /\ earlier' = Append(earlier, Outcome)
    /\ base' = CASE command = "triage" -> triage_result(base_text)
                 [] command = "explain" -> assist_from_cli_error(cli_error)
                 [] OTHER -> base
    /\ pc' = "constructed"
    /\ profiled' = None
    /\ ctx' = None
    /\ issues' = << >>
    /\ violation' = << >>
    /\ rendered' = << >>
    /\ stdout' = << >>
    /\ stderr' = << >>
    /\ exit_status' = << >>
    /\ UNCHANGED <<command, profile, input_kind, base_text, failure, json_file, cli_error, ci>>

\* The caller runs the pipeline again on a result with the same visible
\* fields and other audit fields.
RerunAudited ==
    /\ RunOver
    /\ command = "library"
    /\ Len(earlier) < MaxRuns - 1
    /\ earlier' = Append(earlier, Outcome)
    /\ \E trail \in AuditTrails \cup {<< >>}, ev \in {<< >>, base.evidence} :
          /\ base' = [base EXCEPT !.methods_applied = trail, !.evidence = ev]
          /\ base' # base
    /\ pc' = "constructed"
    /\ profiled' = None
    /\ ctx' = None
    /\ issues' = << >>
    /\ violation' = << >>
    /\ rendered' = << >>
    /\ stdout' = << >>
    /\ stderr' = << >>
    /\ exit_status' = << >>
    /\ UNCHANGED <<command, profile, input_kind, base_text, failure, json_file, cli_error, ci>>

NextRepeat ==
    \/ FirstRun
    \/ RenderWithProfileGuarded
    \/ OutputResult
    \/ HandleGuardViolation
    \/ Rerun
    \/ RerunAudited

SpecRepeat == Init /\ [][NextRepeat]_vars

-----------------------------------------------------------------------------
(* The gate of a11y-ci *)

\* Most findings of a scorecard file and most entries of an allowlist file.
MaxFindings == 2
MaxEntries == 2

\* The date of the run, and the date after midnight
Today == <<2026, 10, 31>>
NextDay == <<2026, 11, 1>>

Finding(id, rule_id, fingerprint, severity) ==
    [id |-> id, rule_id |-> rule_id, fingerprint |-> fingerprint,
     severity |-> severity, message |-> "m"]

\* Findings as a scorecard file has them
FileFindings ==
    {Finding("A.ONE", None, <<"fp1">>, "Serious"),
     Finding("B.TWO", None, <<"fp2">>, "minor"),
     Finding(None, "A.ONE", << >>, "error"),
     Finding("B.TWO", None, <<"fp1">>, " critical "),
     Finding(None, None, << >>, "warning")}

ScorecardFiles == SeqsUpTo(FileFindings, MaxFindings)

BaselineFiles ==
    {<< >>,
     <<Finding("A.ONE", None, <<"fp1">>, "Serious")>>,
     <<Finding("B.TWO", None, <<"fp2">>, "minor"),
       Finding(None, "A.ONE", << >>, "error")>>}

FailOnOptions == {"serious", " critical ", "bogus"}

\* expires of an entry: past, the day of the run, the day after, the last
\* day of a year before, and a day no month has
ExpiresSamples ==
    {<<2026, 10, 30>>, <<2026, 10, 31>>, <<2026, 11, 1>>, <<2025, 12, 31>>, <<2026, 2, 30>>}

AllowlistEntry(id, kind, expires) == [id |-> id, kind |-> kind, expires |-> expires]

EntrySamples ==
    {AllowlistEntry(t[1], t[2], exp) :
        t \in {<< <<"A.ONE">>, "id" >>, << <<"B.TWO">>, "id" >>, << <<"fp1">>, "fingerprint" >>},
        exp \in ExpiresSamples}

\* The second entry of a file of two
SecondEntries ==
    {AllowlistEntry(<<"A.ONE">>, "id", <<2026, 10, 31>>),
     AllowlistEntry(<<"B.TWO">>, "id", <<2026, 11, 1>>),
     AllowlistEntry(<<"fp1">>, "fingerprint", <<2026, 10, 30>>)}

AllowlistFiles ==
    {<< >>} \cup {<<e>> : e \in EntrySamples}
            \cup (IF MaxEntries >= 2
                  THEN {<<e, d>> : e \in EntrySamples, d \in SecondEntries} ELSE {})

\* gate_cmd reads its files: Scorecard.load, Allowlist.load
GateCmdLoad ==
    /\ ci.stage = "idle"
    /\ \E current \in ScorecardFiles, baseline \in {<< >>} \cup {<<b>> : b \in BaselineFiles},
          fail_on \in FailOnOptions,
          allowlist \in {<< >>} \cup {<<a>> : a \in AllowlistFiles} :
          ci' = [ci EXCEPT !.stage = "loaded",
                           !.current = Scorecard_load(current),
                           !.baseline = IF baseline = << >> THEN << >>
                                        ELSE <<Scorecard_load(baseline[1])>>,
                           !.fail_on = fail_on,
                           !.allowlist = allowlist]
    /\ UNCHANGED <<pc, command, profile, input_kind, base_text, base, profiled, ctx,
                   issues, violation, io, cli_error, rendered, earlier>>

\* gate_cmd calls gate; midnight may pass between the two readings of the
\* date
GateCall ==
    /\ ci.stage = "loaded"
    /\ \E today_active \in {Today, NextDay} :
          ci' = [ci EXCEPT !.stage = "gated",
                           !.today = Today,
                           !.today_active = today_active,
                           !.result = <<gate(ci.current, ci.baseline, ci.fail_on,
                                             ci.allowlist, Today, today_active)>>]
    /\ UNCHANGED <<pc, command, profile, input_kind, base_text, base, profiled, ctx,
                   issues, violation, io, cli_error, rendered, earlier>>

NextGate == GateCmdLoad \/ GateCall

SpecGate == Init /\ [][NextGate]_vars

-----------------------------------------------------------------------------
(* Properties *)

\* A profile transform has been applied to a constructed result and the
\* Guard has looked at it.
Transformed ==
    /\ pc \in {"validated", "guard_violation"}
    /\ command \in {"triage", "library"}

\* validate_profile_transform has returned or raised.
GuardRan == pc \in {"validated", "guard_violation"}

\* The Guard reported an issue with this code.
HasCode(code) == \E k \in 1..Len(issues) : issues[k].code = code

\* C1: every profile transform returns the anchored_id and the confidence of
\* its input, so after construct -> transform -> guard both are still the
\* values set at construction.
C1_IdAndConfidenceKept ==
    Transformed =>
        /\ profiled.anchored_id = base.anchored_id
        /\ profiled.confidence = base.confidence

C1_Witness ==
    /\ Transformed
    /\ command = "triage"
    /\ profile = "cognitive-load"
    /\ base.anchored_id = "A.B"
    /\ base.confidence = "Medium"
    /\ profiled.anchored_id = "A.B"
    /\ profiled.confidence = "Medium"

C3_LowConfidenceNoCommands ==
    (Transformed /\ base.confidence = "Low") => profiled.next_safe_commands = << >>

\* C4: the plan of the transformed result has at most the profile's
\* configured max_steps steps.
C4_PlanWithinMaxSteps ==
    (Transformed /\ ctx.max_steps # << >>) => Len(profiled.plan) <= ctx.max_steps[1]

\* C5: for screen-reader, dyslexia and plain-language the transformed
\* safest_next_step and plan steps contain none of ( ) [ ].
C5_NoBrackets ==
    (Transformed /\ profile \in {"screen-reader", "dyslexia", "plain-language"}) =>
        /\ ~PARENTHETICAL_search(profiled.safest_next_step)
        /\ \A i \in 1..Len(profiled.plan) : ~PARENTHETICAL_search(profiled.plan[i])

\* C6: for screen-reader and dyslexia no transformed safest_next_step, plan
\* step or note contains a visual-navigation reference.
C6_NoVisualReferences ==
    (Transformed /\ profile \in {"screen-reader", "dyslexia"}) =>
        /\ ~VISUAL_NAV_search(profiled.safest_next_step)
        /\ \A i \in 1..Len(profiled.plan) : ~VISUAL_NAV_search(profiled.plan[i])
        /\ \A i \in 1..Len(profiled.notes) : ~VISUAL_NAV_search(profiled.notes[i])

\* C7: the Guard reports ID.INVENTED exactly when the base id is None and
\* the transformed id is not, ID.CHANGED exactly when the base id is not
\* None and the transformed id differs from it, and no id issue otherwise.
C7_IdIssues ==
    GuardRan =>
        /\ HasCode("ID.INVENTED")
             <=> (base.anchored_id = None /\ profiled.anchored_id # None)
        /\ HasCode("ID.CHANGED")
             <=> (base.anchored_id # None /\ profiled.anchored_id # base.anchored_id)

C7_Witness ==
    /\ GuardRan
    /\ base.anchored_id = "A.B"
    /\ profiled.anchored_id = None
    /\ HasCode("ID.CHANGED")
    /\ ~HasCode("ID.INVENTED")

\* Low < Medium < High, pair by pair
RanksAbove(high, low) ==
    <<low, high>> \in {<<"Low", "Medium">>, <<"Low", "High">>, <<"Medium", "High">>}

\* C8: the Guard reports CONFIDENCE.INCREASED exactly when the transformed
\* confidence ranks strictly above the base confidence.
C8_ConfidenceIncreased ==
    GuardRan =>
        (HasCode("CONFIDENCE.INCREASED")
            <=> RanksAbove(profiled.confidence, base.confidence))

C8_Witness ==
    /\ GuardRan
    /\ base.confidence = "Medium"
    /\ profiled.confidence = "High"
    /\ HasCode("CONFIDENCE.INCREASED")

\* The Guard reported this command as invented.
ReportedInvented(cmd) ==
    \E k \in 1..Len(issues) :
        issues[k].code = "COMMANDS.INVENTED" /\ issues[k].where = cmd

\* C9: the Guard reports COMMANDS.INVENTED for a transformed command exactly
\* when the command, after stripping one leading "$" or "$ ", equals no
\* allowed command after the same stripping.
C9_InventedIffNoMatch ==
    GuardRan =>
        \A i \in 1..Len(profiled.next_safe_commands) :
            ReportedInvented(profiled.next_safe_commands[i])
                <=> StripDollarPrefix(profiled.next_safe_commands[i])
                        \notin {StripDollarPrefix(a) : a \in ctx.allowed_safe_commands}

\* C10: when the context's confidence is Low and the transformed result has
\* commands, the Guard reports COMMANDS.DISALLOWED_LOW_CONF, whether or not
\* it also reports COMMANDS.INVENTED.
C10_LowConfidenceCommandsDisallowed ==
    (GuardRan /\ ctx.confidence = "Low" /\ profiled.next_safe_commands # << >>) =>
        HasCode("COMMANDS.DISALLOWED_LOW_CONF")

C10_Witness ==
    /\ GuardRan
    /\ ctx.confidence = "Low"
    /\ profiled.next_safe_commands # << >>
    /\ HasCode("COMMANDS.INVENTED")
    /\ HasCode("COMMANDS.DISALLOWED_LOW_CONF")

\* The max_steps stated for each profile, as no or one number
StatedMaxSteps(p, confidence) ==
    CASE p = "lowvision" -> <<5>>
      [] p = "cognitive-load" -> <<3>>
      [] p = "screen-reader" -> IF confidence = "Low" THEN <<3>> ELSE <<5>>
      [] p = "dyslexia" -> <<5>>
      [] p = "plain-language" -> <<4>>
      [] OTHER -> << >>

\* C11: under the context get_guard_context builds, the Guard reports
\* PLAN.TOO_MANY_STEPS exactly when the plan has more steps than the
\* profile's max_steps, and never when max_steps is unset.
C11_TooManySteps ==
    GuardRan =>
        (HasCode("PLAN.TOO_MANY_STEPS")
            <=> /\ StatedMaxSteps(ctx.profile, ctx.confidence) # << >>
                /\ Len(profiled.plan) > StatedMaxSteps(ctx.profile, ctx.confidence)[1])

C11_Witness ==
    /\ GuardRan
    /\ command = "guard"
    /\ ctx.profile = "screen-reader"
    /\ ctx.confidence = "Low"
    /\ Len(profiled.plan) = 4
    /\ HasCode("PLAN.TOO_MANY_STEPS")

\* How many issues with this code the Guard reported for this field
IssueCount(code, where) ==
    Len(SelectSeq(issues, LAMBDA i : i.code = code /\ i.where = where))

\* Every issue with this code is about safest_next_step, a plan step or a note.
OnCheckedFields(code) ==
    \A k \in 1..Len(issues) :
        issues[k].code = code =>
            \/ issues[k].where = <<"safest_next_step">>
            \/ \E j \in 1..Len(profiled.plan) : issues[k].where = <<"plan", j - 1>>
            \/ \E j \in 1..Len(profiled.notes) : issues[k].where = <<"notes", j - 1>>

\* One issue with this code for the field when the flag is set and the text
\* offends, none otherwise.
OneIssueIff(code, where, flag, offends) ==
    IssueCount(code, where) = IF flag /\ offends THEN 1 ELSE 0

HasBracket(text) ==
    \E k \in 1..Len(text) : text[k] \in {"(", ")", "[", "]"}

\* C12: with forbid_parentheticals (forbid_visual_refs) set the Guard reports
\* one TEXT.PARENTHETICALS_FORBIDDEN (TEXT.VISUAL_REFS_FORBIDDEN) issue for
\* each of safest_next_step, the plan steps and the notes that holds a
\* bracket (a visual-navigation match); with the flag unset it reports none.
C12_TextChecksGatedPerField ==
    GuardRan =>
        /\ OnCheckedFields("TEXT.PARENTHETICALS_FORBIDDEN")
        /\ OnCheckedFields("TEXT.VISUAL_REFS_FORBIDDEN")
        /\ OneIssueIff("TEXT.PARENTHETICALS_FORBIDDEN", <<"safest_next_step">>,
                       ctx.forbid_parentheticals, HasBracket(profiled.safest_next_step))
        /\ OneIssueIff("TEXT.VISUAL_REFS_FORBIDDEN", <<"safest_next_step">>,
                       ctx.forbid_visual_refs, VISUAL_NAV_search(profiled.safest_next_step))
        /\ \A j \in 1..Len(profiled.plan) :
              /\ OneIssueIff("TEXT.PARENTHETICALS_FORBIDDEN", <<"plan", j - 1>>,
                             ctx.forbid_parentheticals, HasBracket(profiled.plan[j]))
              /\ OneIssueIff("TEXT.VISUAL_REFS_FORBIDDEN", <<"plan", j - 1>>,
                             ctx.forbid_visual_refs, VISUAL_NAV_search(profiled.plan[j]))
        /\ \A j \in 1..Len(profiled.notes) :
              /\ OneIssueIff("TEXT.PARENTHETICALS_FORBIDDEN", <<"notes", j - 1>>,
                             ctx.forbid_parentheticals, HasBracket(profiled.notes[j]))
              /\ OneIssueIff("TEXT.VISUAL_REFS_FORBIDDEN", <<"notes", j - 1>>,
                             ctx.forbid_visual_refs, VISUAL_NAV_search(profiled.notes[j]))

C12_Witness ==
    /\ GuardRan
    /\ ctx.forbid_parentheticals
    /\ HasBracket(profiled.safest_next_step)
    /\ Len(profiled.plan) >= 2
    /\ HasBracket(profiled.plan[1])
    /\ ~HasBracket(profiled.plan[2])
    /\ profiled.notes # << >>
    /\ HasBracket(profiled.notes[1])
    /\ IssueCount("TEXT.PARENTHETICALS_FORBIDDEN", <<"notes", 0>>) = 1

\* The violation carries an issue with this code.
Carries(code) == \E k \in 1..Len(violation) : violation[k].code = code

\* C13: validate_profile_transform raises GuardViolation exactly when some
\* issue has severity ERROR; the violation carries every ERROR issue of
\* every check that fired and no WARN issue, and a result with WARN issues
\* only is accepted.
C13_ViolationCarriesAllErrors ==
    GuardRan =>
        /\ pc = "guard_violation" <=> \E k \in 1..Len(issues) : issues[k].severity = "ERROR"
        /\ pc = "guard_violation" <=> violation # << >>
        /\ \A k \in 1..Len(issues) :
              issues[k].severity = "ERROR" => \E j \in 1..Len(violation) : violation[j] = issues[k]
        /\ \A j \in 1..Len(violation) :
              /\ violation[j].severity = "ERROR"
              /\ \E k \in 1..Len(issues) : issues[k] = violation[j]
        /\ (base.anchored_id = None /\ profiled.anchored_id # None) => Carries("ID.INVENTED")
        /\ RanksAbove(profiled.confidence, base.confidence) => Carries("CONFIDENCE.INCREASED")
        /\ (StatedMaxSteps(ctx.profile, ctx.confidence) # << >>
            /\ Len(profiled.plan) > StatedMaxSteps(ctx.profile, ctx.confidence)[1])
              => Carries("PLAN.TOO_MANY_STEPS")
        /\ (ctx.forbid_parentheticals /\ HasBracket(profiled.safest_next_step))
              => Carries("TEXT.PARENTHETICALS_FORBIDDEN")
        /\ ~Carries("CONTENT.UNSUPPORTED")

\* Three checks fire at once and a warning is found as well.
C13_Witness ==
    /\ pc = "guard_violation"
    /\ Carries("ID.INVENTED")
    /\ Carries("PLAN.TOO_MANY_STEPS")
    /\ Carries("TEXT.PARENTHETICALS_FORBIDDEN")
    /\ HasCode("CONTENT.UNSUPPORTED")

\* A result whose only issues are warnings is accepted.
C13_WitnessWarnOnly ==
    /\ pc = "validated"
    /\ issues # << >>
    /\ \A k \in 1..Len(issues) : issues[k].code = "CONTENT.UNSUPPORTED"

\* Something went to stdout or to the --json-out file.
Emitted == stdout # << >> \/ json_file # << >>

\* Everything on stdout and in the file is the transformed result the Guard
\* accepted, with the Guard's method id, never the base result.
OutputsAreGuarded ==
    \A o \in Range(stdout) \cup Range(json_file) :
        /\ o.result = profiled
        /\ o.result # base
        /\ InSeq(METHOD_GUARD_VALIDATE, o.result.methods_applied)
        /\ o.result.safest_next_step = apply_profile(base, profile).safest_next_step
        /\ o.result.plan = apply_profile(base, profile).plan

\* C14: a command transforms, then guards, then renders: rendered text or a
\* JSON response is written only after validate_profile_transform returned
\* normally for the transformed result, and a run whose Guard raised writes
\* neither and never falls back to the base result.
C14_TransformGuardRender ==
    /\ [](Emitted => /\ pc = "emitted"
                     /\ violation = << >>
                     /\ \A k \in 1..Len(issues) : issues[k].severity # "ERROR"
                     /\ OutputsAreGuarded)
    /\ [](violation # << >> => ~Emitted)
    /\ [][(stdout' # stdout \/ json_file' # json_file)
            => pc = "validated" /\ violation = << >>]_vars
    /\ [][pc' \in {"validated", "guard_violation"} => pc \in {"start", "constructed"}]_vars
    /\ [][pc = "guard_violation" => pc' = "failed" /\ ~Emitted']_vars

C14_Witness ==
    /\ pc = "emitted"
    /\ command = "triage"
    /\ stdout # << >>
    /\ stdout[1].kind = "rendered"
    /\ json_file # << >>

\* A run whose Guard raised has ended with nothing written.
C14_WitnessViolation ==
    /\ pc = "failed"
    /\ violation # << >>
    /\ stderr # << >>
    /\ ~Emitted

\* C15: a run ended by a GuardViolation exits with a non-zero status of its
\* own, different from the one the commands use when the user's input is
\* rejected (schema-invalid JSON, no input).
C15_GuardExitDistinct ==
    (pc = "failed" /\ violation # << >>) =>
        /\ exit_status # << >>
        /\ exit_status[1] # 0
        /\ exit_status[1] # USAGE_EXIT

\* C16: explain on a malformed or schema-invalid file recovers: it builds a
\* Low result with no id and no commands that describes the validation
\* errors, runs it through the guarded pipeline and ends with the
\* user-input exit status; nothing escapes uncaught.
C16_ExplainRecovers ==
    (command = "explain" /\ failure \in {"malformed", "schema_invalid"}) =>
        /\ pc # "crashed"
        /\ base.confidence = "Low"
        /\ base.anchored_id = None
        /\ base.next_safe_commands = << >>
        /\ exit_status # << >> => exit_status[1] = USAGE_EXIT /\ pc \in {"emitted", "failed"}

\* The text from position i on reads "(ID:", any white space, this id, ")".
IdAt(text, i, id) ==
    \E j \in (i + 3)..(Len(text) - 1) :
        /\ text[i] = "(" /\ text[i + 1] = "ID" /\ text[i + 2] = ":"
        /\ \A k \in (i + 3)..(j - 1) : text[k] \in {" ", "\n"}
        /\ text[j] = id
        /\ text[j + 1] = ")"

\* Ids of the shape [A-Z][A-Z0-9]*(\.[A-Z0-9]+)+ among the model's lexemes
WellFormedIds == {"A.B", "C.D", "NAMESPACE.CATEGORY.DETAIL"}

\* triage_cmd has built its base result from stdin.
TriageBuilt == command = "triage" /\ failure = None /\ pc # "start"

\* C17: the base result of triage carries the id captured by the first
\* (ID: ...) match of the text, or None when nothing matches; its
\* confidence is Medium exactly when an id was found and Low otherwise,
\* never High, and its id always occurs in the text.
C17_TriageIdAndConfidence ==
    TriageBuilt =>
        /\ base.confidence = (IF base.anchored_id # None THEN "Medium" ELSE "Low")
        /\ base.anchored_id = None
              => \A i \in 1..Len(base_text) : \A id \in WellFormedIds : ~IdAt(base_text, i, id)
        /\ base.anchored_id # None
              => \E i \in 1..Len(base_text) :
                    /\ IdAt(base_text, i, base.anchored_id)
                    /\ \A h \in 1..(i - 1) : \A id \in WellFormedIds : ~IdAt(base_text, h, id)

\* Two ids in the text: the first one is taken.
C17_Witness ==
    /\ TriageBuilt
    /\ base.anchored_id = "C.D"
    /\ base.confidence = "Medium"
    /\ \E i \in 1..Len(base_text) : IdAt(base_text, i, "A.B")

\* The Fix block of the input as the stated machine reads it: a header opens
\* its block, an open block takes the trimmed text of each line indented by
\* two blanks or more, a blank line is skipped and adds nothing, any other
\* line closes the block.  open says whether a block is open and whether it
\* is the Fix block.
RECURSIVE StatedFixBlock(_, _, _)
StatedFixBlock(lines, open, fix) ==
    IF lines = << >> THEN fix
    ELSE LET s == Head(lines) IN
         IF Strip(s) \in {<<"What", ":">>, <<"Why", ":">>}
         THEN StatedFixBlock(Tail(lines), "other", fix)
         ELSE IF Strip(s) = <<"Fix", ":">>
         THEN StatedFixBlock(Tail(lines), "fix", fix)
         ELSE IF open # "none" /\ Strip(s) = << >>
         THEN StatedFixBlock(Tail(lines), open, fix)
         ELSE IF open # "none" /\ Len(s) >= 2 /\ s[1] = " " /\ s[2] = " "
         THEN StatedFixBlock(Tail(lines), open,
                             IF open = "fix" THEN Append(fix, Strip(s)) ELSE fix)
         ELSE StatedFixBlock(Tail(lines), "none", fix)

\* C18: extract_blocks is the stated machine; seen through triage, whose
\* plan is the Fix block when that is not empty: blank lines inside a block
\* add no entry.
C18_BlocksAsStated ==
    TriageBuilt =>
        LET stated == StatedFixBlock(splitlines(base_text), "none", << >>)
        IN base.plan = (IF stated # << >> THEN stated ELSE TRIAGE_PLAN_FALLBACK)

\* explain_cmd has built its base result from a schema-valid object.
ExplainBuilt == command = "explain" /\ failure = None /\ pc # "start"

\* The fix lines of the input that are not blank, trimmed, in input order
StatedSteps(obj) ==
    SelectSeq([i \in 1..Len(obj.fix.v) |-> Strip(obj.fix.v[i])], LAMBDA line : line # << >>)

\* C19: the base result of a schema-valid input has confidence High, the
\* input's id (its code when there is no id) as anchored_id, and as plan the
\* non-blank fix lines, trimmed and in input order, or one generic sentence
\* when there are none; the plan is never empty.
C19_StructuredBaseResult ==
    ExplainBuilt =>
        /\ base.confidence = "High"
        /\ base.anchored_id = (IF cli_error.id # << >> THEN cli_error.id[1] ELSE cli_error.code)
        /\ base.plan # << >>
        /\ IF StatedSteps(cli_error) # << >>
           THEN base.plan = StatedSteps(cli_error)
           ELSE base.plan = <<<<"Follow", " ", "the", " ", "Fix", " ", "steps", " ",
                                "provided", " ", "by", " ", "the", " ", "tool", " ",
                                "output", ".">>>>

\* A list with a blank line and a padded line gives the padded line, trimmed.
C19_Witness ==
    /\ ExplainBuilt
    /\ cli_error.fix.kind = "list"
    /\ Len(cli_error.fix.v) = 2
    /\ cli_error.fix.v[1] = <<" ">>
    /\ cli_error.fix.v[2] = <<" ", "w", " ">>
    /\ base.plan = <<<<"w">>>>

\* No id in the input: the code anchors the result, the plan falls back.
C19_WitnessCode ==
    /\ ExplainBuilt
    /\ cli_error.id = << >>
    /\ base.anchored_id = "PAY001"
    /\ cli_error.fix.kind = "absent"
    /\ Len(base.plan) = 1

\* The command holds --dry-run, validate or check.
HoldsSafeWord(c) ==
    \E k \in 1..Len(c) : c[k] \in {"--dry-run", "validate", "--validate", "check", "checkout"}

\* The line starts with "$ ", "> " or "run ".
StartsWithPrompt(line) ==
    Len(line) >= 2 /\ line[1] \in {"$", ">", "run"} /\ line[2] = " "

\* The line starts with re-run: in any letter case.
StartsWithRerun(line) ==
    Len(line) >= 2 /\ line[1] \in {"re-run", "Re-run", "RE-RUN"} /\ line[2] = ":"

\* The command is what the line leaves once its prompt characters or its
\* Re-run: prefix and the white space around are taken away; lead says
\* whether a prompt may follow leading white space.
ComesFromLine(c, line, lead) ==
    \/ /\ \/ \E k \in 1..Len(line) : line[k] = "--dry-run"
          \/ StartsWithPrompt(IF lead THEN Strip(line) ELSE line)
       /\ c = Strip(DropPromptChars(line))
    \/ /\ StartsWithRerun(line)
       /\ c = AfterFirstColon(line)

\* The fix lines that give the command
SourceLines(c, fix, lead) == {k \in 1..Len(fix) : ComesFromLine(c, fix[k], lead)}

\* At most three commands, no two equal, each with a safe word and from a
\* qualifying fix line, in the order of the first lines that give them
SafeCommandsFrom(cmds, fix, lead) ==
    /\ Len(cmds) <= 3
    /\ \A i, j \in 1..Len(cmds) : i < j => cmds[i] # cmds[j]
    /\ \A i \in 1..Len(cmds) :
          /\ HoldsSafeWord(cmds[i])
          /\ SourceLines(cmds[i], fix, lead) # {}
    /\ \A i, j \in 1..Len(cmds) :
          i < j => \E a \in SourceLines(cmds[i], fix, lead) :
                      \A b \in SourceLines(cmds[j], fix, lead) : a <= b

\* C20 as stated: next_safe_commands of a schema-valid input has at most 3
\* entries, no two equal, in order of first appearance, each with --dry-run,
\* validate or check and from a fix line that contains --dry-run, starts
\* with "$ ", "> " or "run ", or starts with re-run: in any letter case.
C20_SafeCommandsFromQualifyingLines ==
    ExplainBuilt => SafeCommandsFrom(base.next_safe_commands, cli_error.fix.v, FALSE)

\* C20, amended: the same, where a line also qualifies when "$ ", "> " or
\* "run " follows leading white space.
C20_SafeCommandsFromTrimmedLines ==
    ExplainBuilt => SafeCommandsFrom(base.next_safe_commands, cli_error.fix.v, TRUE)

\* More than three safe commands in the input, one of them twice.
C20_Witness ==
    /\ ExplainBuilt
    /\ Len(cli_error.fix.v) = 7
    /\ Len(base.next_safe_commands) = 3
    /\ base.next_safe_commands[1] = <<"x", " ", "--dry-run">>
    /\ base.next_safe_commands[2] = <<"Re-run", ":", " ", "x", " ", "--dry-run">>

\* C21 as stated: every command of a base result, from a structured
\* input or from raw text, is text that stands unchanged in one fix line
\* of the input.
C21_CommandsVerbatimInFixLine ==
    /\ ExplainBuilt =>
          \A i \in 1..Len(base.next_safe_commands) :
              \E j \in 1..Len(cli_error.fix.v) :
                  Contains(cli_error.fix.v[j], base.next_safe_commands[i])
    /\ TriageBuilt =>
          \A i \in 1..Len(base.next_safe_commands) :
              \E line \in Range(splitlines(base_text)) :
                  Contains(line, base.next_safe_commands[i])

\* render_with_profile_guarded has returned the text of a guarded result.
Rendered == pc \in {"validated", "emitted"} /\ rendered # << >>

\* The text holds the part, unbroken, at some position.
Shows(text, part) ==
    \E i \in 1..(Len(text) - Len(part) + 1) : SubSeq(text, i, i + Len(part) - 1) = part

\* The text shows every entry of the list.
ShowsAll(text, entries) == \A i \in 1..Len(entries) : Shows(text, entries[i])

\* C22 as stated: the text a renderer returns for a result the Guard
\* accepted shows the id, the confidence, the safest next step, every
\* plan step, every command and every note of that result.
C22_RenderedShowsEverything ==
    Rendered =>
        /\ profiled.anchored_id # None => Shows(rendered[1], <<profiled.anchored_id>>)
        /\ Shows(rendered[1], <<profiled.confidence>>)
        /\ Shows(rendered[1], profiled.safest_next_step)
        /\ ShowsAll(rendered[1], profiled.plan)
        /\ ShowsAll(rendered[1], profiled.next_safe_commands)
        /\ ShowsAll(rendered[1], profiled.notes)

\* A profile transform has been applied to the base result of a command or
\* of a library call.
Applied == pc \in {"validated", "guard_violation"} /\ command # "guard"

\* methods_applied as apply_profile returned it: the Guard's id, added
\* after the validation passed, taken off again.
TransformTrail ==
    IF pc = "guard_violation" \/ InSeq(METHOD_GUARD_VALIDATE, base.methods_applied)
    THEN profiled.methods_applied
    ELSE SubSeq(profiled.methods_applied, 1, Len(profiled.methods_applied) - 1)

\* Every field but methods_applied is the base result's.
SameButTrail ==
    [profiled EXCEPT !.methods_applied = << >>] = [base EXCEPT !.methods_applied = << >>]

\* C23 as stated: lowvision returns its input with the lowvision method id
\* appended to methods_applied, whatever the input.
C23_LowvisionAppendsItsId ==
    Applied /\ profile = "lowvision" =>
        /\ SameButTrail
        /\ TransformTrail = Append(base.methods_applied, METHOD_PROFILE("lowvision"))

\* C23: lowvision returns its input with the lowvision method id appended
\* to methods_applied, or the input itself when methods_applied already
\* holds that id.
C23_LowvisionAppendsItsIdOnce ==
    Applied /\ profile = "lowvision" =>
        /\ SameButTrail
        /\ TransformTrail =
              (IF InSeq(METHOD_PROFILE("lowvision"), base.methods_applied)
               THEN base.methods_applied
               ELSE Append(base.methods_applied, METHOD_PROFILE("lowvision")))

C23_Witness ==
    /\ Applied
    /\ pc = "validated"
    /\ profile = "lowvision"
    /\ base.methods_applied = <<METHOD_PROFILE("lowvision")>>
    /\ base.evidence # << >>
    /\ profiled.methods_applied = <<METHOD_PROFILE("lowvision"), METHOD_GUARD_VALIDATE>>

C23_WitnessAppended ==
    /\ Applied
    /\ profile = "lowvision"
    /\ command = "triage"
    /\ base.next_safe_commands # << >>
    /\ profiled.methods_applied =
          <<METHOD_NORMALIZE_RAW_TEXT, METHOD_PROFILE("lowvision"), METHOD_GUARD_VALIDATE>>

\* The earlier run k of the series and the run that has just ended gave
\* the same verdict, the same guard codes and the same text.
SameOutcome(k) ==
    /\ earlier[k].accepted = Outcome.accepted
    /\ earlier[k].codes = Outcome.codes
    /\ earlier[k].text = Outcome.text

\* C24: every run of the pipeline on one input and profile ends as each
\* earlier run on it did: accepted or rejected alike, with the same set of
\* guard codes and the same rendered text, whatever order the allowed
\* set had in each run and whatever the earlier runs left behind.
C24_RepeatedRunsAgree ==
    RunOver => \A k \in 1..Len(earlier) : earlier[k].input = base => SameOutcome(k)

C24_Witness ==
    /\ RunOver
    /\ Len(earlier) = MaxRuns - 1
    /\ command = "triage"
    /\ profile = "cognitive-load"
    /\ Outcome.accepted
    /\ Len(profiled.next_safe_commands) = 1
    /\ Len(ctx.iteration) = 2
    /\ earlier[1].order # ctx.iteration
    /\ json_file # << >>

C24_WitnessRejected ==
    /\ RunOver
    /\ earlier # << >>
    /\ ~Outcome.accepted
    /\ ~earlier[1].accepted
    /\ command = "explain"

\* The two results agree on every field a user sees.
SameVisible(r, q) ==
    /\ r.anchored_id = q.anchored_id
    /\ r.confidence = q.confidence
    /\ r.safest_next_step = q.safest_next_step
    /\ r.plan = q.plan
    /\ r.next_safe_commands = q.next_safe_commands
    /\ r.notes = q.notes

\* C25: a run on a result that differs from the result of an earlier run
\* only in methods_applied or evidence ends with the same Guard verdict
\* and the same rendered text as that run, for every profile.
C25_AuditFieldsDoNotShow ==
    RunOver =>
        \A k \in 1..Len(earlier) :
            SameVisible(earlier[k].input, base) =>
                /\ earlier[k].accepted = Outcome.accepted
                /\ earlier[k].text = Outcome.text

C25_Witness ==
    /\ RunOver
    /\ earlier # << >>
    /\ profile = "lowvision"
    /\ Outcome.accepted
    /\ earlier[1].input.methods_applied # base.methods_applied
    /\ earlier[1].input.evidence # base.evidence
    /\ profiled.methods_applied # <<METHOD_PROFILE("lowvision"), METHOD_GUARD_VALIDATE>>
    /\ rendered # << >>
    /\ earlier[1].text = rendered

C25_WitnessRejected ==
    /\ RunOver
    /\ earlier # << >>
    /\ profile = "lowvision"
    /\ ~Outcome.accepted
    /\ Len(base.plan) = MaxPlanLen
    /\ earlier[1].input.methods_applied # base.methods_applied

\* C26 as stated: the result of an accepted run of a command carries the
\* normalization method of its input, then the method of the profile,
\* then the method of the Guard, and nothing else.
C26_TrailOfAcceptedRun ==
    (pc \in {"validated", "emitted"} /\ command \in {"triage", "explain"} /\ failure = None) =>
        profiled.methods_applied =
            <<IF command = "triage" THEN METHOD_NORMALIZE_RAW_TEXT
              ELSE METHOD_NORMALIZE_CLI_ERROR,
              METHOD_PROFILE(profile),
              METHOD_GUARD_VALIDATE>>

\* C27 as stated: on a base result that triage_cmd or assist_from_cli_error
\* built, the Guard never raises on what the profile's transform returns;
\* no command ends in the handler of the guard violation.
C27_GuardAcceptsShippedTransforms ==
    (command \in {"triage", "explain"} /\ failure = None) =>
        /\ pc \notin {"guard_violation", "failed"}
        /\ violation = << >>

\* _remove_parentheticals of the profile that strips bracketed spans
StripsParentheticals == {"cognitive-load", "screen-reader", "dyslexia", "plain-language"}

RemoveParentheticalsOf(p, step) ==
    CASE p = "cognitive-load" -> CL_remove_parentheticals(step)
      [] p = "screen-reader" -> SR_remove_parentheticals(step)
      [] p = "dyslexia" -> DY_remove_parentheticals(step)
      [] p = "plain-language" -> PL_remove_parentheticals(step)

\* C28 as stated: in a profile that strips parentheticals, the removal
\* applied to a non-empty step of the plan never gives an empty step, and
\* a step that is nothing but bracketed spans is returned as it was.
C28_ParentheticalsNeverEmptyAStep ==
    (GuardRan /\ command # "guard" /\ profile \in StripsParentheticals) =>
        \A k \in 1..Len(base.plan) :
            Strip(base.plan[k]) # << >> =>
                /\ RemoveParentheticalsOf(profile, base.plan[k]) # << >>
                /\ Strip(PARENTHETICAL_sub(base.plan[k])) = << >> =>
                       RemoveParentheticalsOf(profile, base.plan[k]) = base.plan[k]

\* ABBREVIATIONS of screen_reader.py and dyslexia.py together
AbbreviationTable ==
    {"CLI", "ID", "JSON", "API", "SFTP", "SSH", "URL", "HTTP", "HTTPS", "env"}

ExpandsAbbreviations == {"screen-reader", "dyslexia"}

ExpandAbbreviationsOf(p, s) ==
    IF p = "screen-reader" THEN SR_expand_abbreviations(s) ELSE DY_expand_abbreviations(s)

\* The number of matches of \babbr\b in s
Occurrences(s, abbr) ==
    Cardinality({i \in 1..Len(s) :
                    s[i] = abbr /\ BoundaryBefore(s, i) /\ BoundaryAfter(s, i)})

\* C29 as stated: in a profile that expands abbreviations, the expansion of
\* a step replaces the first occurrence of every abbreviation of the table
\* and leaves each later occurrence of it in the text.
C29_AbbreviationExpandedOnce ==
    (GuardRan /\ command # "guard" /\ profile \in ExpandsAbbreviations) =>
        \A k \in 1..Len(base.plan) : \A abbr \in AbbreviationTable :
            Occurrences(base.plan[k], abbr) > 0 =>
                Occurrences(ExpandAbbreviationsOf(profile, base.plan[k]), abbr) =
                    Occurrences(base.plan[k], abbr) - 1

\* gate has returned
Gated == ci.stage = "gated"

\* The entry is expired on the day: its date is before the day, or it has none
ExpiredOn(e, day) == ~IsDate(e.expires) \/ DateBefore(e.expires, day)

\* The entry names the finding, by id or by fingerprint
Suppresses(e, f) ==
    \/ e.kind = "id" /\ e.id = <<f.id>>
    \/ e.kind = "fingerprint" /\ e.id = f.fingerprint

\* The findings of the current scorecard that no entry that has not
\* expired, on the day the entries are applied, suppresses
Unsuppressed ==
    {f \in Range(ci.current) :
        ci.allowlist = << >> \/
        ~\E e \in Range(ci.allowlist[1]) : ~ExpiredOn(e, ci.today_active) /\ Suppresses(e, f)}

AtOrAbove(f, fail_on) == severity_rank(f.severity) >= severity_rank(fail_on)

C30_WitnessPass ==
    /\ Gated
    /\ ci.baseline # << >>
    /\ ci.allowlist # << >>
    /\ \E f \in Range(ci.current) : AtOrAbove(f, ci.fail_on)
    /\ ci.result[1].ok

\* A gate that fails on a regression against its baseline.
C30_WitnessRegression ==
    /\ Gated
    /\ "new_ids" \in Range(ci.result[1].reasons)
    /\ "count" \in Range(ci.result[1].reasons)

\* Midnight passed during the call: an entry that ends on the day the call
\* began is not reported as expired and suppresses nothing.
C30_WitnessMidnight ==
    /\ Gated
    /\ ci.allowlist # << >>
    /\ ci.today_active # ci.today
    /\ \E e \in Range(ci.allowlist[1]) :
          /\ ~ExpiredOn(e, ci.today) /\ ExpiredOn(e, ci.today_active)
          /\ \E f \in Unsuppressed : Suppresses(e, f) /\ AtOrAbove(f, ci.fail_on)
    /\ ci.result[1].reasons = <<"current">>

====
